---- MODULE Spec2Model ----
(***************************************************************************)
(* The loan lifecycle engine of sbc-demo-backend (server/): the REST       *)
(* handlers of the loan state machine, the lazy default check, the         *)
(* multi-assessor (ERA) aggregation and the qin bookkeeping.               *)
(*                                                                         *)
(* Every handler runs its reads and writes inside one                      *)
(* dbClient.RunInTransaction call; an action below is one handler with its *)
(* transaction: the transaction body is a pure operator (..Tx) from the    *)
(* entities read to the error returned and the entities put, and the       *)
(* action commits the puts only when the body returns nil.  Requests are   *)
(* those of an authenticated borrower; GetUser and HealthCheck write       *)
(* nothing and are left out.                                               *)
(*                                                                         *)
(* Numbers.  The code computes in float64.  The model computes the same    *)
(* expressions over exact rationals <<numerator, denominator>>; the values *)
(* the code keeps after rounding are kept as the scaled integers they      *)
(* round to: qin amounts and money in hundredths, interest rates in units  *)
(* of 0.0001.  Timestamps are counted in clock ticks of half a day; the    *)
(* code's seconds-to-milliseconds factor multiplies every timestamp alike  *)
(* and is left out.                                                        *)
(***************************************************************************)
EXTENDS Integers, Sequences, FiniteSets, TLC

VARIABLES
    users,      \* datastore kind "user":  UID -> <<>> (no entity) or <<User>>
    loans,      \* datastore kind "loans": UID -> LoanHistory.LoanRecords
    now,        \* time.Now(), in ticks
    ticks,      \* number of clock advances so far
    res,        \* the last request served and the error it answered with
    getDbClient,        \* channel of idle clients, buffered (kNumDbClients)
    returnDbClient,     \* channel of clients handed back, buffered
    dbManager,          \* the goroutine ManageDbClients
    authServer,         \* the goroutine Auth
    callers,            \* the goroutines serving requests
    sent                \* the calls of SendToBloom so far

(* The goroutines and channels of main(): they are at rest in the          *)
(* specifications of the handlers' transactions and move in those of the   *)
(* client pool and of the authentication gate                              *)
procVars == <<getDbClient, returnDbClient, dbManager, authServer, callers, sent>>

vars == <<users, loans, now, ticks, res, procVars>>

----------------------------------------------------------------------------
(* Bounds of the model *)

MaxLoans == 2       \* records per loan history
MaxTicks == 1       \* clock advances
kNumDbClients == 2  \* clients of the pool (era.go has 5): fewer than Callers
MaxCreated == 4     \* clients created by ManageDbClients over a behaviour

Borrowers == {"u1"}                 \* authenticated UIDs
Amounts == {0, 1000}                \* LoanRequest.LoanAmount values requested
RandDraws == {<<1, 2>>}             \* values of rand.Float64()
Locations == {"", "loc"}            \* LoanSelectRequest.Location.LocationName

----------------------------------------------------------------------------
(* Program constants *)

GRACE_NUM_LOANS == 1
LOAN_DAYS == 30
TicksPerDay == 2
MAX_INTEREST_RATE == <<1, 10>>
MAX_QIN_COLLATERAL == <<1, 2>>
ERA_INTEREST_FRACTION == <<1, 50>>

----------------------------------------------------------------------------
(* Exact rationals standing for float64 values; <<0, 0>> stands for NaN:   *)
(* it is returned by every sum and product it enters, and every comparison *)
(* with it is false                                                        *)

NaN == <<0, 0>>

IsNaN(x) == x[2] = 0

RECURSIVE GCD(_, _)
GCD(a, b) == IF b = 0 THEN a ELSE GCD(b, a % b)

Abs(x) == IF x < 0 THEN -x ELSE x

Rat(n, d) ==
    LET g == GCD(Abs(n), Abs(d))
        s == IF d < 0 THEN -1 ELSE 1
    IN  IF g = 0 THEN NaN ELSE <<s * (n \div g), s * (d \div g)>>

RInt(k) == <<k, 1>>

RMul(a, b) ==
    LET g1 == GCD(Abs(a[1]), b[2])
        g2 == GCD(Abs(b[1]), a[2])
        h1 == IF g1 = 0 THEN 1 ELSE g1
        h2 == IF g2 = 0 THEN 1 ELSE g2
    IN  Rat((a[1] \div h1) * (b[1] \div h2), (a[2] \div h2) * (b[2] \div h1))

RAdd(a, b) == Rat(a[1] * b[2] + b[1] * a[2], a[2] * b[2])

RLess(a, b) == a[1] * b[2] < b[1] * a[2]


(* Round cutting the fraction off instead of rounding to the nearest *)
Round_Truncates(f) ==
    IF f[1] >= 0 THEN f[1] \div f[2] ELSE -((-f[1]) \div f[2])

(* Round: float64(int(f + math.Copysign(0.5, f))); int() truncates toward 0 *)
Round(f) ==
    IF f[1] >= 0
    THEN (2 * f[1] + f[2]) \div (2 * f[2])
    ELSE -((2 * (-f[1]) + f[2]) \div (2 * f[2]))

----------------------------------------------------------------------------
(* The risk assessors (ERAs) *)

kKiva == "KivaERA"
kProsper == "ProsperERA"
kNaive == "NaiveERA"
kRandom == "RandomERA"

(* Other implementations of the ERA interface.  A stub returns fixed raw   *)
(* values from predictProbDefault, predictInterestRate and                 *)
(* computeQinReward, whatever it is passed; its computeQinCollateral       *)
(* returns the probability it is passed and its rejectBorrower rejects     *)
(* exactly the probabilities outside [0, 1].                               *)
StubERAs ==
    {"StubLow", "StubHigh", "StubIn", "StubEdge", "StubLowHigh", "StubHighLow", "StubNaN"}

StubRaw(era) ==
    CASE era = "StubLow" -> [prob |-> <<-1, 2>>, rate |-> <<-1, 100>>, reward |-> <<-1, 1>>]
      [] era = "StubHigh" -> [prob |-> <<3, 2>>, rate |-> <<1, 5>>, reward |-> <<2, 1>>]
      [] era = "StubIn" -> [prob |-> <<1, 2>>, rate |-> <<1, 20>>, reward |-> <<1, 2>>]
      [] era = "StubEdge" -> [prob |-> <<1, 1>>, rate |-> <<1, 10>>, reward |-> <<0, 1>>]
      [] era = "StubLowHigh" -> [prob |-> <<-1, 2>>, rate |-> <<1, 5>>, reward |-> <<2, 1>>]
      [] era = "StubHighLow" -> [prob |-> <<3, 2>>, rate |-> <<-1, 100>>, reward |-> <<-1, 1>>]
      [] era = "StubNaN" -> [prob |-> NaN, rate |-> NaN, reward |-> NaN]

(* featureToProb(coefficients, features) = logistic(dotProduct(..)).  The  *)
(* exponential is not computable here: the value is tabulated, to four     *)
(* decimals, for the principal amounts of Amounts.                         *)
(*   KivaERA:    logistic(-3.92992243318379 + 0.0018010882525536 * P)      *)
(*   ProsperERA: logistic(0.0853254321972573 + 1.91903762849344e-05 * P    *)
(*                        - 2.81892322338568e-05 * income), income = 0     *)
KivaProb(principal) ==
    CASE principal = 1000 -> Rat(1063, 10000)
      [] principal = 20000 -> Rat(10000, 10000)
      [] principal = -1000 -> Rat(32, 10000)

ProsperProb(principal, income) ==
    CASE principal = 1000 -> Rat(5261, 10000)
      [] principal = 20000 -> Rat(6152, 10000)
      [] principal = -1000 -> Rat(5165, 10000)

(* predictProbDefault with NaiveERA drawing its probability as RandomERA   *)
(* does                                                                    *)
predictProbDefault_NaiveDraws(era, borrower_app, rnd) ==
    CASE era = kKiva -> KivaProb(borrower_app.principal_amount)
      [] era = kProsper -> ProsperProb(borrower_app.principal_amount,
                                       borrower_app.stated_monthly_income)
      [] era = kNaive -> RAdd(RMul(rnd, Rat(1, 2)), Rat(1, 2))
      [] era = kRandom -> RAdd(RMul(rnd, Rat(1, 2)), Rat(1, 2))
      [] era \in StubERAs -> StubRaw(era).prob

(* predictProbDefault; rnd is the value rand.Float64() returns *)
predictProbDefault(era, borrower_app, rnd) ==
    CASE era = kKiva -> KivaProb(borrower_app.principal_amount)
      [] era = kProsper -> ProsperProb(borrower_app.principal_amount,
                                       borrower_app.stated_monthly_income)
      [] era = kNaive -> Rat(1, 2)
      [] era = kRandom -> RAdd(RMul(rnd, Rat(1, 2)), Rat(1, 2))
      [] era \in StubERAs -> StubRaw(era).prob

predictInterestRate(era, prob_default) ==
    IF era \in StubERAs THEN StubRaw(era).rate
    ELSE RMul(prob_default, MAX_INTEREST_RATE)

(* computeQinCollateral multiplying by the number of loans in place of     *)
(* dividing by it                                                          *)
computeQinCollateral_Grows(era, prob_default, num_successful_loans) ==
    RMul(RMul(prob_default, MAX_QIN_COLLATERAL), RInt(num_successful_loans + 1))

computeQinCollateral(era, prob_default, num_successful_loans) ==
    IF era \in StubERAs THEN prob_default
    ELSE RMul(RMul(prob_default, MAX_QIN_COLLATERAL), Rat(1, num_successful_loans + 1))

computeQinReward(era, prob_default, interest_reward) ==
    IF era \in StubERAs THEN StubRaw(era).reward
    ELSE RMul(prob_default, interest_reward)

rejectBorrower(era, prob_default) ==
    CASE era = kKiva -> RLess(Rat(9, 10), prob_default)
      [] era = kProsper -> RLess(Rat(6, 10), prob_default)
      [] era = kNaive -> RLess(RInt(1), prob_default)
      [] era = kRandom -> RLess(RInt(1), prob_default)
      [] era \in StubERAs -> RLess(prob_default, RInt(0)) \/ RLess(RInt(1), prob_default)

(* The clamp of a probability to [0, 1] *)
ClampProb(p) ==
    IF RLess(p, RInt(0)) THEN RInt(0)
    ELSE IF RLess(RInt(1), p) THEN RInt(1)
    ELSE p

(* The clamp of an interest rate to [0, MAX_INTEREST_RATE] *)
ClampRate(r) ==
    IF RLess(r, RInt(0)) THEN RInt(0)
    ELSE IF RLess(MAX_INTEREST_RATE, r) THEN MAX_INTEREST_RATE
    ELSE r

(* The clamp of a qin reward to >= 0 *)
ClampReward(q) == IF RLess(q, RInt(0)) THEN RInt(0) ELSE q

(* processBorrowerApp: <<>> is the nil *ERATerms of a rejection.           *)
(* borrower_information.earned_qin is the balance, in hundredths.          *)
processBorrowerApp(era, borrower_app, borrower_information, loan_fraction, offered_by, rnd) ==
    LET prob_default == ClampProb(predictProbDefault(era, borrower_app, rnd))
        graced == borrower_information.no_loans < GRACE_NUM_LOANS
        qin_collateral ==
            IF graced THEN RInt(0)
            ELSE computeQinCollateral(era, prob_default,
                                      borrower_information.successful_loans)
        interest_rate == ClampRate(predictInterestRate(era, prob_default))
        interest_reward == RMul(loan_fraction, interest_rate)
        qin_reward == ClampReward(computeQinReward(era, prob_default, interest_reward))
    IN  IF rejectBorrower(era, prob_default) THEN <<>>
        ELSE IF ~graced /\ RLess(Rat(borrower_information.earned_qin, 100), qin_collateral)
        THEN <<>>
        ELSE << [interest_rate |-> interest_rate,
                 qin_collateral |-> qin_collateral,
                 qin_reward |-> qin_reward,
                 interest_reward |-> interest_reward,
                 offered_by |-> offered_by] >>

(* constructERADriver: the registry, in list order *)
eraDriver ==
    [_eras |-> <<kKiva, kProsper, kNaive, kRandom>>,
     _era_external_names |-> <<"LendingData", "IntelligentAnalytica",
                               "ABC Analytica", "Star Labs">>,
     _num_eras |-> 4]

(* processBorrowerRequest: one response slot per ERA, <<>> for a rejection *)
processBorrowerRequest(era_driver, borrower_app, borrower_information, rnd) ==
    LET loan_fraction == RMul(ERA_INTEREST_FRACTION, RInt(borrower_app.principal_amount))
    IN  [i \in 1..era_driver._num_eras |->
            processBorrowerApp(era_driver._eras[i], borrower_app, borrower_information,
                               loan_fraction, era_driver._era_external_names[i], rnd)]

----------------------------------------------------------------------------
(* Errors.  "nil" is the nil error. *)

ErrAuthFailed == "ErrAuthFailed"
ErrEmailNotValidated == "ErrEmailNotValidated"
ErrUserDisabled == "ErrUserDisabled"
ErrAuthTokenNotProvided == "ErrAuthTokenNotProvided"
ErrUserNotRegistered == "ErrUserNotRegistered"
ErrUserDataNotFound == "ErrUserDataNotFound"
ErrLoanAlreadyExists == "ErrLoanAlreadyExists"
ErrNoActiveLoan == "ErrNoActiveLoan"
ErrLoanInWrongState == "ErrLoanInWrongState"
ErrLoanInDefault == "ErrLoanInDefault"
ErrInvalidId == "ErrInvalidId"
ErrNotEnoughQin == "ErrNotEnoughQin"
ErrBadJsonPopulation == "ErrBadJsonPopulation"
ErrUserAlreadyExists == "ErrUserAlreadyExists"
ErrNoSuchEntity == "datastore.ErrNoSuchEntity"
ErrInvalidState == "Invalid state value"
ErrMultipleActive == "Found multiple active loans"
ErrDueDateNotSet == "Due date not set for SENT loan"
ErrLessQin == "Internal Error: user has less QIN than when loan was selected."

----------------------------------------------------------------------------
(* Loan records.  A LoanRecord is                                          *)
(*   [LoanId, Amount, State, Terms, AcceptedTerms, DueDate, Location,      *)
(*    Repayments, RepaidDate]                                              *)
(* with AcceptedTerms <<>> for the nil pointer and <<t>> otherwise,        *)
(* Location "" for the nil pointer, DueDate and RepaidDate 0 when unset    *)
(* (the Go zero value).  Memo, CurrencyCode, Request and DateCreated are   *)
(* written once at creation, read by no handler, and left out.             *)

LoanStates == {"PENDING", "APPROVED", "REJECTED", "ACCEPTED", "SENT",
               "REPAID", "DEFAULTED", "CANCELED"}

(* IsLoanActive with SENT left out of the active states *)
IsLoanActive_SentInactive(state) == state \in {"PENDING", "APPROVED", "ACCEPTED"}

(* IsLoanActive: the bool result *)
IsLoanActive(state) == state \in {"PENDING", "APPROVED", "ACCEPTED", "SENT"}

(* IsLoanActive: the error result *)
IsLoanActiveErr(state) == IF state \in LoanStates THEN "nil" ELSE ErrInvalidState

(* The loop of ActiveLoanForLoanHistory from record i on, with the index   *)
(* found so far (0: none): [idx, err]                                      *)
RECURSIVE ActiveLoanScan(_, _, _)
ActiveLoanScan(records, i, found) ==
    IF i > Len(records) THEN [idx |-> found, err |-> "nil"]
    ELSE IF IsLoanActiveErr(records[i].State) # "nil"
         THEN [idx |-> 0, err |-> IsLoanActiveErr(records[i].State)]
    ELSE IF IsLoanActive(records[i].State)
         THEN IF found # 0 THEN [idx |-> 0, err |-> ErrMultipleActive]
              ELSE ActiveLoanScan(records, i + 1, i)
    ELSE ActiveLoanScan(records, i + 1, found)

(* ActiveLoanForLoanHistory: idx is the index of the active record, 0 for  *)
(* the nil *LoanRecord                                                     *)
ActiveLoanForLoanHistory(records) == ActiveLoanScan(records, 1, 0)

(* DefaultActiveLoanIfNecessary defaulting every record past its due date,  *)
(* whatever its state                                                      *)
DefaultActiveLoanIfNecessary_AnyState(records, t) ==
    LET late == {i \in 1..Len(records) :
                    /\ records[i].DueDate # 0
                    /\ records[i].DueDate < t
                    /\ records[i].State # "DEFAULTED"}
    IN  [records |-> [i \in 1..Len(records) |->
                        IF i \in late THEN [records[i] EXCEPT !.State = "DEFAULTED"]
                        ELSE records[i]],
         didModify |-> late # {},
         err |-> "nil"]

(* DefaultActiveLoanIfNecessary reporting a modification for every SENT    *)
(* active record with a due date, past due or not                          *)
DefaultActiveLoanIfNecessary_ReportsSent(records, t) ==
    LET a == ActiveLoanForLoanHistory(records)
    IN  IF a.err # "nil" THEN [records |-> records, didModify |-> FALSE, err |-> a.err]
        ELSE IF a.idx # 0 /\ records[a.idx].State = "SENT"
        THEN IF records[a.idx].DueDate = 0
             THEN [records |-> records, didModify |-> FALSE, err |-> ErrDueDateNotSet]
             ELSE IF records[a.idx].DueDate < t
             THEN [records |-> [records EXCEPT ![a.idx].State = "DEFAULTED"],
                   didModify |-> TRUE, err |-> "nil"]
             ELSE [records |-> records, didModify |-> TRUE, err |-> "nil"]
        ELSE [records |-> records, didModify |-> FALSE, err |-> "nil"]

(* DefaultActiveLoanIfNecessary that never defaults *)
DefaultActiveLoanIfNecessary_Never(records, t) ==
    [records |-> records, didModify |-> FALSE, err |-> "nil"]

(* DefaultActiveLoanIfNecessary at time t: [records, didModify, err] *)
DefaultActiveLoanIfNecessary(records, t) ==
    LET a == ActiveLoanForLoanHistory(records)
    IN  IF a.err # "nil" THEN [records |-> records, didModify |-> FALSE, err |-> a.err]
        ELSE IF a.idx # 0 /\ records[a.idx].State = "SENT"
        THEN IF records[a.idx].DueDate = 0
             THEN [records |-> records, didModify |-> FALSE, err |-> ErrDueDateNotSet]
             ELSE IF records[a.idx].DueDate < t
             THEN [records |-> [records EXCEPT ![a.idx].State = "DEFAULTED"],
                   didModify |-> TRUE, err |-> "nil"]
             ELSE [records |-> records, didModify |-> FALSE, err |-> "nil"]
        ELSE [records |-> records, didModify |-> FALSE, err |-> "nil"]

(* LoanTermsForId: the index of the term in loanRecord.Terms, 0 for nil *)
LoanTermsForId(termId, loanRecord) ==
    LET hits == {i \in 1..Len(loanRecord.Terms) : loanRecord.Terms[i].TermId = termId}
    IN  IF hits = {} THEN 0 ELSE CHOOSE i \in hits : \A j \in hits : i <= j

----------------------------------------------------------------------------
(* LoanRequestFun *)

(* The LoanTerms of one ERATerms at index currentIndex (lines 851-859):    *)
(* InterestRate in units of 0.0001, qin and money in hundredths            *)
TermsOfERA(loanId, amount, terms, currentIndex) ==
    LET rate == Round(RMul(terms.interest_rate, RInt(10000)))
    IN  [TermId |-> loanId \o "-" \o ToString(currentIndex),
         InterestRate |-> rate,
         QinReward |-> Round(RMul(terms.qin_reward, RInt(100))),
         QinRequired |-> Round(RMul(terms.qin_collateral, RInt(100))),
         AmountOwed |-> Round(RMul(RMul(RAdd(RInt(1), Rat(rate, 10000)), RInt(amount)),
                                   RInt(100))),
         OfferedBy |-> terms.offered_by]

(* The fallback LoanTerms when no ERA offers (lines 865-874) *)
FallbackTerms(loanId, amount) ==
    [TermId |-> loanId \o "-0",
     InterestRate |-> 500,
     QinReward |-> 10,
     QinRequired |-> 0,
     AmountOwed |-> Round(RMul(RMul(RAdd(RInt(1), Rat(500, 10000)), RInt(amount)),
                               RInt(100))),
     OfferedBy |-> "OneDaijo"]

(* loanRecord.Terms from the response slots (lines 841-875) *)
RECURSIVE TermsFrom(_, _, _, _, _)
TermsFrom(loanId, amount, era_terms, i, currentIndex) ==
    IF i > Len(era_terms) THEN <<>>
    ELSE IF era_terms[i] = <<>>
         THEN TermsFrom(loanId, amount, era_terms, i + 1, currentIndex)
    ELSE <<TermsOfERA(loanId, amount, era_terms[i][1], currentIndex)>>
         \o TermsFrom(loanId, amount, era_terms, i + 1, currentIndex + 1)

(* loanRecord.Terms without the fallback offer *)
LoanTermsOf_NoFallback(loanId, amount, era_terms) ==
    TermsFrom(loanId, amount, era_terms, 1, 0)

(* loanRecord.Terms with the fallback offer added to the assessors' offers *)
LoanTermsOf_FallbackToo(loanId, amount, era_terms) ==
    TermsFrom(loanId, amount, era_terms, 1, 0)
        \o <<FallbackTerms(loanId \o "-fallback", amount)>>

LoanTermsOf(loanId, amount, era_terms) ==
    LET num_not_nil == Cardinality({i \in 1..Len(era_terms) : era_terms[i] # <<>>})
    IN  IF num_not_nil > 0 THEN TermsFrom(loanId, amount, era_terms, 1, 0)
        ELSE <<FallbackTerms(loanId, amount)>>

(* The record built before the transaction (lines 725-743) *)
NewLoanRecord(amount) ==
    [LoanId |-> "", Amount |-> amount, State |-> "PENDING", Terms |-> <<>>,
     AcceptedTerms |-> <<>>, DueDate |-> 0, Location |-> "",
     Repayments |-> <<>>, RepaidDate |-> 0]

(* The loop over the history counting cancelled loans as finished ones *)
RECURSIVE BorrowerInfoScan_CountsCanceled(_, _, _)
BorrowerInfoScan_CountsCanceled(records, i, info) ==
    IF i > Len(records) THEN [info |-> info, err |-> "nil"]
    ELSE IF IsLoanActiveErr(records[i].State) # "nil"
         THEN [info |-> info, err |-> IsLoanActiveErr(records[i].State)]
    ELSE IF IsLoanActive(records[i].State)
         THEN [info |-> info, err |-> ErrLoanAlreadyExists]
    ELSE BorrowerInfoScan_CountsCanceled(records, i + 1,
            [info EXCEPT
                !.successful_loans = @ + (IF records[i].State = "REPAID" THEN 1 ELSE 0),
                !.no_loans = @ + 1])

(* The loop over the history without its check for an active record *)
BorrowerInfoScan_NoActiveCheck(records, i, info) == [info |-> info, err |-> "nil"]

(* borrowerInfo of the loop over the history (lines 785-807); err is the   *)
(* error the loop returns with                                             *)
RECURSIVE BorrowerInfoScan(_, _, _)
BorrowerInfoScan(records, i, info) ==
    IF i > Len(records) THEN [info |-> info, err |-> "nil"]
    ELSE IF IsLoanActiveErr(records[i].State) # "nil"
         THEN [info |-> info, err |-> IsLoanActiveErr(records[i].State)]
    ELSE IF IsLoanActive(records[i].State)
         THEN [info |-> info, err |-> ErrLoanAlreadyExists]
    ELSE BorrowerInfoScan(records, i + 1,
            [info EXCEPT
                !.successful_loans = @ + (IF records[i].State = "REPAID" THEN 1 ELSE 0),
                !.no_loans = @ + (IF records[i].State \in {"REPAID", "DEFAULTED"}
                                  THEN 1 ELSE 0)])

(* The transaction of LoanRequestFun putting the new record in front of    *)
(* the history                                                             *)
LoanRequestTx_Prepends(uid, user, records, amount, rnd, t) ==
    IF user = <<>> THEN [err |-> ErrUserNotRegistered, records |-> records]
    ELSE IF user[1].EmploymentInfo = <<>> \/ user[1].ResidenceInfo = <<>>
    THEN [err |-> ErrUserDataNotFound, records |-> records]
    ELSE
    LET d == DefaultActiveLoanIfNecessary(records, t)
        loanId == uid \o "-" \o ToString(Len(d.records))
        scan == BorrowerInfoScan(d.records, 1,
                    [earned_qin |-> user[1].QinBalance, no_loans |-> 0,
                     successful_loans |-> 0])
        loanRecord == [NewLoanRecord(amount) EXCEPT
                          !.LoanId = loanId,
                          !.State = "APPROVED",
                          !.Terms = <<FallbackTerms(loanId, amount)>>]
    IN  IF d.err # "nil" THEN [err |-> d.err, records |-> records]
        ELSE IF scan.err # "nil" THEN [err |-> scan.err, records |-> records]
        ELSE [err |-> "nil", records |-> <<loanRecord>> \o d.records]

(* The transaction of LoanRequestFun (lines 752-885) on the entities read: *)
(* [err, records], records being the history put when err is nil          *)
LoanRequestTx(uid, user, records, amount, rnd, t) ==
    IF user = <<>> THEN [err |-> ErrUserNotRegistered, records |-> records]
    ELSE IF user[1].EmploymentInfo = <<>> \/ user[1].ResidenceInfo = <<>>
    THEN [err |-> ErrUserDataNotFound, records |-> records]
    ELSE
    LET d == DefaultActiveLoanIfNecessary(records, t)
        loanId == uid \o "-" \o ToString(Len(d.records))
        scan == BorrowerInfoScan(d.records, 1,
                    [earned_qin |-> user[1].QinBalance, no_loans |-> 0,
                     successful_loans |-> 0])
        income == user[1].EmploymentInfo[1].EmploymentIncome
        borrowerApp == [borrower_id |-> uid,
                        principal_amount |-> amount,
                        stated_monthly_income |-> IF income = <<>> THEN 0 ELSE income[1]]
        era_terms == processBorrowerRequest(eraDriver, borrowerApp, scan.info, rnd)
        loanRecord == [NewLoanRecord(amount) EXCEPT
                          !.LoanId = loanId,
                          !.State = "APPROVED",
                          !.Terms = LoanTermsOf(loanId, amount, era_terms)]
    IN  IF d.err # "nil" THEN [err |-> d.err, records |-> records]
        ELSE IF scan.err # "nil" THEN [err |-> scan.err, records |-> records]
        ELSE [err |-> "nil", records |-> Append(d.records, loanRecord)]

----------------------------------------------------------------------------
(* GetActiveLoan, GetLoans *)

(* The transaction of GetActiveLoan and GetLoans without the default check *)
DefaultCheckTx_NoCheck(records, t) ==
    [err |-> "nil", records |-> records, put |-> FALSE]

(* The transaction of GetActiveLoan (lines 915-936) and of GetLoans (lines *)
(* 1289-1313): [err, records, put], put telling whether the history is put *)
DefaultCheckTx(records, t) ==
    LET d == DefaultActiveLoanIfNecessary(records, t)
    IN  IF d.err # "nil" THEN [err |-> d.err, records |-> records, put |-> FALSE]
        ELSE [err |-> "nil", records |-> d.records, put |-> d.didModify]

(* The error GetActiveLoan answers with after its transaction returned nil *)
(* and left the history records (lines 945-954)                            *)
GetActiveLoanAnswer(records) ==
    LET a == ActiveLoanForLoanHistory(records)
    IN  IF a.err = "nil" /\ a.idx = 0 THEN ErrNoActiveLoan ELSE a.err

----------------------------------------------------------------------------
(* SelectLoanOffer *)

(* The due date 30 days ahead without the rounding down to the day *)
DueDateAt_NoRounding(t) == t + LOAN_DAYS * TicksPerDay

(* The due date set at pickup, at time t (line 1063): 30 days ahead,       *)
(* rounded down to the day                                                 *)
DueDateAt(t) == ((t + LOAN_DAYS * TicksPerDay) \div TicksPerDay) * TicksPerDay

(* The term-selection step without the comparison of the balance with the  *)
(* required collateral                                                     *)
SelectTermStep_NoBalanceCheck(user, activeLoan, selectedTerm) ==
    LET k == LoanTermsForId(selectedTerm, activeLoan)
    IN  IF selectedTerm = "" THEN [err |-> "nil", loan |-> activeLoan]
        ELSE IF activeLoan.AcceptedTerms # <<>>
        THEN [err |-> ErrBadJsonPopulation, loan |-> activeLoan]
        ELSE IF k = 0 THEN [err |-> ErrInvalidId, loan |-> activeLoan]
        ELSE [err |-> "nil",
              loan |-> [activeLoan EXCEPT !.AcceptedTerms = <<activeLoan.Terms[k]>>]]

(* The term-selection step (lines 1031-1047) on the active record:         *)
(* [err, loan]                                                             *)
SelectTermStep(user, activeLoan, selectedTerm) ==
    LET k == LoanTermsForId(selectedTerm, activeLoan)
    IN  IF selectedTerm = "" THEN [err |-> "nil", loan |-> activeLoan]
        ELSE IF activeLoan.AcceptedTerms # <<>>
        THEN [err |-> ErrBadJsonPopulation, loan |-> activeLoan]
        ELSE IF k = 0 THEN [err |-> ErrInvalidId, loan |-> activeLoan]
        ELSE IF activeLoan.Terms[k].QinRequired > user.QinBalance
        THEN [err |-> ErrNotEnoughQin, loan |-> activeLoan]
        ELSE [err |-> "nil",
              loan |-> [activeLoan EXCEPT !.AcceptedTerms = <<activeLoan.Terms[k]>>]]

(* The pickup step without the check that terms were accepted *)
SelectPickupStep_NoTermsCheck(user, activeLoan, location, t) ==
    IF location = ""
    THEN [err |-> "nil", loan |-> activeLoan, user |-> user, putUser |-> FALSE]
    ELSE [err |-> "nil",
          loan |-> [activeLoan EXCEPT !.Location = location,
                                      !.DueDate = DueDateAt(t),
                                      !.State = "SENT"],
          user |-> user,
          putUser |-> TRUE]

(* The pickup step debiting the amount owed in place of the collateral *)
SelectPickupStep_DebitsOwed(user, activeLoan, location, t) ==
    IF location = ""
    THEN [err |-> "nil", loan |-> activeLoan, user |-> user, putUser |-> FALSE]
    ELSE IF activeLoan.AcceptedTerms = <<>>
    THEN [err |-> ErrBadJsonPopulation, loan |-> activeLoan, user |-> user,
          putUser |-> FALSE]
    ELSE [err |-> "nil",
          loan |-> [activeLoan EXCEPT !.Location = location,
                                      !.State = "SENT"],
          user |-> [user EXCEPT !.QinBalance =
                        @ - activeLoan.AcceptedTerms[1].AmountOwed],
          putUser |-> TRUE]

(* The pickup step (lines 1049-1078) at time t: [err, loan, user, putUser] *)
SelectPickupStep(user, activeLoan, location, t) ==
    IF location = ""
    THEN [err |-> "nil", loan |-> activeLoan, user |-> user, putUser |-> FALSE]
    ELSE IF activeLoan.AcceptedTerms = <<>>
    THEN [err |-> ErrBadJsonPopulation, loan |-> activeLoan, user |-> user,
          putUser |-> FALSE]
    ELSE IF user.QinBalance < activeLoan.AcceptedTerms[1].QinRequired
    THEN [err |-> ErrLessQin, loan |-> activeLoan, user |-> user, putUser |-> FALSE]
    ELSE [err |-> "nil",
          loan |-> [activeLoan EXCEPT !.Location = location,
                                      !.DueDate = DueDateAt(t),
                                      !.State = "SENT"],
          user |-> [user EXCEPT !.QinBalance =
                        @ - activeLoan.AcceptedTerms[1].QinRequired],
          putUser |-> TRUE]

(* The transaction of SelectLoanOffer without the check of the state *)
SelectLoanOfferTx_NoStateCheck(user, records, selectedTerm, location, t) ==
    IF user = <<>>
    THEN [err |-> ErrUserNotRegistered, user |-> user, records |-> records]
    ELSE
    LET a == ActiveLoanForLoanHistory(records)
        s1 == SelectTermStep(user[1], records[a.idx], selectedTerm)
        s2 == SelectPickupStep(user[1], s1.loan, location, t)
    IN  IF a.err # "nil" THEN [err |-> a.err, user |-> user, records |-> records]
        ELSE IF a.idx = 0
        THEN [err |-> ErrNoActiveLoan, user |-> user, records |-> records]
        ELSE IF s1.err # "nil" THEN [err |-> s1.err, user |-> user, records |-> records]
        ELSE IF s2.err # "nil" THEN [err |-> s2.err, user |-> user, records |-> records]
        ELSE [err |-> "nil", user |-> <<s2.user>>,
              records |-> [records EXCEPT ![a.idx] = s2.loan]]

(* The transaction of SelectLoanOffer (lines 1000-1086):                   *)
(* [err, user, records]; user and records are put when err is nil          *)
SelectLoanOfferTx(user, records, selectedTerm, location, t) ==
    IF user = <<>>
    THEN [err |-> ErrUserNotRegistered, user |-> user, records |-> records]
    ELSE
    LET a == ActiveLoanForLoanHistory(records)
        s1 == SelectTermStep(user[1], records[a.idx], selectedTerm)
        s2 == SelectPickupStep(user[1], s1.loan, location, t)
    IN  IF a.err # "nil" THEN [err |-> a.err, user |-> user, records |-> records]
        ELSE IF a.idx = 0
        THEN [err |-> ErrNoActiveLoan, user |-> user, records |-> records]
        ELSE IF records[a.idx].State # "APPROVED"
        THEN [err |-> ErrLoanInWrongState, user |-> user, records |-> records]
        ELSE IF s1.err # "nil" THEN [err |-> s1.err, user |-> user, records |-> records]
        ELSE IF s2.err # "nil" THEN [err |-> s2.err, user |-> user, records |-> records]
        ELSE [err |-> "nil", user |-> <<s2.user>>,
              records |-> [records EXCEPT ![a.idx] = s2.loan]]

----------------------------------------------------------------------------
(* Repay *)

(* The settlement that records the repayment and leaves the record SENT *)
RepayLoan_StaysSent(activeLoan, t) ==
    [activeLoan EXCEPT
        !.Repayments = Append(@, [Amount |-> activeLoan.AcceptedTerms[1].AmountOwed,
                                  Timestamp |-> t]),
        !.RepaidDate = t]

(* The settlement that sets the record REPAID and records no repayment *)
RepayLoan_NoRepayment(activeLoan, t) ==
    [activeLoan EXCEPT !.RepaidDate = t, !.State = "REPAID"]

(* The settlement of the active record (lines 1161-1178) at time t *)
RepayLoan(activeLoan, t) ==
    [activeLoan EXCEPT
        !.Repayments = Append(@, [Amount |-> activeLoan.AcceptedTerms[1].AmountOwed,
                                  Timestamp |-> t]),
        !.RepaidDate = t,
        !.State = "REPAID"]

(* The balance after the reward alone is given *)
RepayCredit_RewardOnly(user, activeLoan) ==
    [user EXCEPT !.QinBalance = @ + activeLoan.AcceptedTerms[1].QinReward]

(* The balance after the collateral alone is returned *)
RepayCredit_CollateralOnly(user, activeLoan) ==
    [user EXCEPT !.QinBalance = @ + activeLoan.AcceptedTerms[1].QinRequired]

(* The balance after the collateral is returned and the reward given       *)
(* (line 1170)                                                             *)
RepayCredit(user, activeLoan) ==
    [user EXCEPT !.QinBalance = @ + activeLoan.AcceptedTerms[1].QinRequired
                                  + activeLoan.AcceptedTerms[1].QinReward]

(* The transaction of Repay returning the collateral also when it defaults *)
(* the loan                                                                *)
RepayTx_RefundsOnDefault(user, records, t) ==
    IF user = <<>>
    THEN [err |-> ErrUserNotRegistered, user |-> user, records |-> records,
          repaid |-> FALSE]
    ELSE
    LET a == ActiveLoanForLoanHistory(records)
        d == DefaultActiveLoanIfNecessary(records, t)
        fail(e) == [err |-> e, user |-> user, records |-> records, repaid |-> FALSE]
    IN  IF a.err # "nil" THEN fail(a.err)
        ELSE IF a.idx = 0 THEN fail(ErrNoActiveLoan)
        ELSE IF records[a.idx].State # "SENT" THEN fail(ErrLoanInWrongState)
        ELSE IF d.err # "nil" THEN fail(d.err)
        ELSE IF ~d.didModify
        THEN [err |-> "nil",
              user |-> <<RepayCredit(user[1], records[a.idx])>>,
              records |-> [records EXCEPT ![a.idx] = RepayLoan(records[a.idx], t)],
              repaid |-> TRUE]
        ELSE [err |-> "nil",
              user |-> <<[user[1] EXCEPT !.QinBalance =
                              @ + records[a.idx].AcceptedTerms[1].QinRequired]>>,
              records |-> d.records, repaid |-> FALSE]

(* The transaction of Repay (lines 1124-1192): [err, user, records, repaid] *)
RepayTx(user, records, t) ==
    IF user = <<>>
    THEN [err |-> ErrUserNotRegistered, user |-> user, records |-> records,
          repaid |-> FALSE]
    ELSE
    LET a == ActiveLoanForLoanHistory(records)
        d == DefaultActiveLoanIfNecessary(records, t)
        fail(e) == [err |-> e, user |-> user, records |-> records, repaid |-> FALSE]
    IN  IF a.err # "nil" THEN fail(a.err)
        ELSE IF a.idx = 0 THEN fail(ErrNoActiveLoan)
        ELSE IF records[a.idx].State # "SENT" THEN fail(ErrLoanInWrongState)
        ELSE IF d.err # "nil" THEN fail(d.err)
        ELSE IF ~d.didModify
        THEN [err |-> "nil",
              user |-> <<RepayCredit(user[1], records[a.idx])>>,
              records |-> [records EXCEPT ![a.idx] = RepayLoan(records[a.idx], t)],
              repaid |-> TRUE]
        ELSE [err |-> "nil", user |-> user, records |-> d.records, repaid |-> FALSE]

----------------------------------------------------------------------------
(* DeleteActiveLoan *)

(* Cancellation allowed from every state *)
Cancellable_Always(state) == TRUE

(* The states a loan is cancelled from (line 1244) *)
Cancellable(state) == state = "APPROVED" \/ state = "PENDING"

(* The transaction of DeleteActiveLoan taking the record out of the history *)
DeleteActiveLoanTx_Removes(records) ==
    LET a == ActiveLoanForLoanHistory(records)
    IN  IF a.err # "nil" THEN [err |-> a.err, records |-> records]
        ELSE IF a.idx = 0 THEN [err |-> ErrNoActiveLoan, records |-> records]
        ELSE IF ~Cancellable(records[a.idx].State)
        THEN [err |-> ErrLoanInWrongState, records |-> records]
        ELSE [err |-> "nil",
              records |-> SubSeq(records, 1, a.idx - 1)
                            \o SubSeq(records, a.idx + 1, Len(records))]

(* The transaction of DeleteActiveLoan (lines 1226-1258): [err, records] *)
DeleteActiveLoanTx(records) ==
    LET a == ActiveLoanForLoanHistory(records)
    IN  IF a.err # "nil" THEN [err |-> a.err, records |-> records]
        ELSE IF a.idx = 0 THEN [err |-> ErrNoActiveLoan, records |-> records]
        ELSE IF ~Cancellable(records[a.idx].State)
        THEN [err |-> ErrLoanInWrongState, records |-> records]
        ELSE [err |-> "nil", records |-> [records EXCEPT ![a.idx].State = "CANCELED"]]

----------------------------------------------------------------------------
(* CreateUser, PatchUser *)

(* A User is [QinBalance, EmploymentInfo, ResidenceInfo]; the two infos    *)
(* are <<>> for the nil pointer.  The payload is the decoded request body. *)
EmploymentInfos == {<<>>, <<[EmploymentIncome |-> <<>>]>>}
ResidenceInfos == {<<>>, <<[ResidenceStatus |-> "rent"]>>}
PayloadBalances == {500}
UserPayloads ==
    [QinBalance : PayloadBalances, EmploymentInfo : EmploymentInfos,
     ResidenceInfo : ResidenceInfos]

(* The transaction of CreateUser putting the payload with its balance *)
CreateUserTx_PayloadBalance(user, payload) ==
    IF user # <<>> THEN [err |-> ErrUserAlreadyExists, user |-> user]
    ELSE [err |-> "nil", user |-> <<payload>>]

(* The transaction of CreateUser (lines 505-532) *)
CreateUserTx(user, payload) ==
    IF user # <<>> THEN [err |-> ErrUserAlreadyExists, user |-> user]
    ELSE [err |-> "nil", user |-> <<[payload EXCEPT !.QinBalance = 0]>>]

(* The transaction of PatchUser (lines 1373-1399) *)
PatchUserTx(user, payload) ==
    IF user = <<>> THEN [err |-> ErrNoSuchEntity, user |-> user]
    ELSE [err |-> "nil",
          user |-> <<[user[1] EXCEPT
                        !.EmploymentInfo = IF payload.EmploymentInfo # <<>>
                                           THEN payload.EmploymentInfo ELSE @,
                        !.ResidenceInfo = IF payload.ResidenceInfo # <<>>
                                          THEN payload.ResidenceInfo ELSE @]>>]

----------------------------------------------------------------------------
(* The handlers.  Each is one request of an authenticated borrower uid,    *)
(* with its one transaction; res records the request and the error of the  *)
(* response ("nil": a 200 response): the operation, the borrower, the      *)
(* error, and of the request body the loan amount (requestLoan) or whether *)
(* a term id and whether a pickup location were sent (selectOffer).        *)

Answer(op, uid, err, arg) == [op |-> op, uid |-> uid, err |-> err, arg |-> arg]

CreateUser(uid, payload) ==
    LET tx == CreateUserTx(users[uid], payload)
    IN  /\ users' = IF tx.err = "nil" THEN [users EXCEPT ![uid] = tx.user] ELSE users
        /\ res' = Answer("register", uid, tx.err, <<>>)
        /\ UNCHANGED <<loans, now, ticks, procVars>>

PatchUser(uid, payload) ==
    /\ IF payload.EmploymentInfo = <<>> /\ payload.ResidenceInfo = <<>>
       THEN /\ res' = Answer("patchProfile", uid, ErrBadJsonPopulation, <<>>)
            /\ UNCHANGED users
       ELSE LET tx == PatchUserTx(users[uid], payload)
            IN  /\ users' = IF tx.err = "nil" THEN [users EXCEPT ![uid] = tx.user]
                            ELSE users
                /\ res' = Answer("patchProfile", uid, tx.err, <<>>)
    /\ UNCHANGED <<loans, now, ticks, procVars>>

LoanRequestFun(uid, amount, rnd) ==
    IF amount = 0
    THEN /\ res' = Answer("requestLoan", uid, ErrBadJsonPopulation, <<amount>>)
         /\ UNCHANGED <<users, loans, now, ticks, procVars>>
    ELSE LET tx == LoanRequestTx(uid, users[uid], loans[uid], amount, rnd, now)
         IN  /\ tx.err = "nil" => Len(tx.records) <= MaxLoans
             /\ loans' = IF tx.err = "nil" THEN [loans EXCEPT ![uid] = tx.records]
                         ELSE loans
             /\ res' = Answer("requestLoan", uid, tx.err, <<amount>>)
             /\ UNCHANGED <<users, now, ticks, procVars>>

GetActiveLoan(uid) ==
    LET tx == DefaultCheckTx(loans[uid], now)
    IN  /\ loans' = IF tx.err = "nil" /\ tx.put THEN [loans EXCEPT ![uid] = tx.records]
                    ELSE loans
        /\ res' = Answer("getActiveLoan", uid,
                         IF tx.err # "nil" THEN tx.err
                         ELSE GetActiveLoanAnswer(tx.records), <<>>)
        /\ UNCHANGED <<users, now, ticks, procVars>>

SelectLoanOffer(uid, selectedTerm, location) ==
    IF location = "" /\ selectedTerm = ""
    THEN /\ res' = Answer("selectOffer", uid, ErrBadJsonPopulation,
                          <<selectedTerm # "", location # "">>)
         /\ UNCHANGED <<users, loans, now, ticks, procVars>>
    ELSE LET tx == SelectLoanOfferTx(users[uid], loans[uid], selectedTerm, location, now)
         IN  /\ users' = IF tx.err = "nil" THEN [users EXCEPT ![uid] = tx.user]
                         ELSE users
             /\ loans' = IF tx.err = "nil" THEN [loans EXCEPT ![uid] = tx.records]
                         ELSE loans
             /\ res' = Answer("selectOffer", uid, tx.err,
                          <<selectedTerm # "", location # "">>)
             /\ UNCHANGED <<now, ticks, procVars>>

Repay(uid) ==
    LET tx == RepayTx(users[uid], loans[uid], now)
    IN  /\ users' = IF tx.err = "nil" THEN [users EXCEPT ![uid] = tx.user] ELSE users
        /\ loans' = IF tx.err = "nil" THEN [loans EXCEPT ![uid] = tx.records] ELSE loans
        /\ res' = Answer("repay", uid,
                         IF tx.err = "nil" /\ ~tx.repaid THEN ErrLoanInDefault
                         ELSE tx.err, <<>>)
        /\ UNCHANGED <<now, ticks, procVars>>

DeleteActiveLoan(uid) ==
    LET tx == DeleteActiveLoanTx(loans[uid])
    IN  /\ loans' = IF tx.err = "nil" THEN [loans EXCEPT ![uid] = tx.records] ELSE loans
        /\ res' = Answer("cancelActiveLoan", uid, tx.err, <<>>)
        /\ UNCHANGED <<users, now, ticks, procVars>>

GetLoans(uid) ==
    LET tx == DefaultCheckTx(loans[uid], now)
    IN  /\ loans' = IF tx.err = "nil" /\ tx.put THEN [loans EXCEPT ![uid] = tx.records]
                    ELSE loans
        /\ res' = Answer("listLoans", uid, tx.err, <<>>)
        /\ UNCHANGED <<users, now, ticks, procVars>>

(* The clock moves on by the loan period *)
TickSteps == {LOAN_DAYS * TicksPerDay}

Tick(d) ==
    /\ ticks < MaxTicks
    /\ now' = now + d
    /\ ticks' = ticks + 1
    /\ UNCHANGED <<users, loans, res, procVars>>

(* The term ids a client may send: none, an id never offered, and of each  *)
(* record ever offered the first and the last offer                        *)
TermChoices(uid) ==
    {"", "bad"} \cup
    UNION {{loans[uid][i].Terms[k].TermId :
               k \in {1, Len(loans[uid][i].Terms)} \cap DOMAIN loans[uid][i].Terms} :
             i \in 1..Len(loans[uid])}

----------------------------------------------------------------------------

(* The goroutines of main() before any of them has taken a step *)

Callers == {"c1", "c2", "c3"}       \* goroutines serving one request each

NilClient == 0                      \* the nil *datastore.Client

ManagerStart == [pc |-> "prewarm", i |-> 0, created |-> 0]

AuthStart == [pc |-> "select", request |-> <<>>, response |-> <<>>]

(* The zero FirebaseAuthResponse{} *)
NoResponse == [Success |-> FALSE, Error |-> "nil", UserInfo |-> ""]

(* A goroutine that serves no request: op is the operation it serves,      *)
(* token and input the header and the body of the request, auth and err    *)
(* the handler's variables authResponse and err, dbClient its variable     *)
(* dbClient.  The rest is the record of what it did: verified tells        *)
(* whether DoAuth has returned and how ("no", "ok", "failed"), got and     *)
(* gave are the clients received from getDbClient and sent to              *)
(* returnDbClient, ran tells whether RunInTransaction was called, loan is  *)
(* the id of the record its transaction selected, and reply the response   *)
(* written ("": none yet, "200", "error", or "aborted" when the goroutine  *)
(* panicked and the connection was closed without a response)              *)
CallerStart ==
    [pc |-> "idle", op |-> "", token |-> "", require |-> FALSE, input |-> <<>>,
     auth |-> NoResponse, err |-> "nil", dbClient |-> NilClient,
     verified |-> "no", got |-> <<>>, gave |-> <<>>, ran |-> FALSE,
     loan |-> "", reply |-> ""]

ProcInit ==
    /\ getDbClient = <<>>
    /\ returnDbClient = <<>>
    /\ dbManager = ManagerStart
    /\ authServer = AuthStart
    /\ callers = [c \in Callers |-> CallerStart]
    /\ sent = <<>>

(* The server starts at midnight or at noon *)
StartTimes == {TicksPerDay, TicksPerDay + 1}

Init ==
    /\ users = [u \in Borrowers |-> <<>>]
    /\ loans = [u \in Borrowers |-> <<>>]
    /\ now \in StartTimes
    /\ ticks = 0
    /\ res = Answer("none", "", "nil", <<>>)
    /\ ProcInit

Next ==
    \/ \E u \in Borrowers, p \in UserPayloads : CreateUser(u, p)
    \/ \E u \in Borrowers, p \in UserPayloads : PatchUser(u, p)
    \/ \E u \in Borrowers, a \in Amounts, r \in RandDraws : LoanRequestFun(u, a, r)
    \/ \E u \in Borrowers : GetActiveLoan(u)
    \/ \E u \in Borrowers, l \in Locations :
          \E s \in TermChoices(u) : SelectLoanOffer(u, s, l)
    \/ \E u \in Borrowers : Repay(u)
    \/ \E u \in Borrowers : DeleteActiveLoan(u)
    \/ \E u \in Borrowers : GetLoans(u)
    \/ \E d \in TickSteps : Tick(d)

Spec == Init /\ [][Next]_vars

----------------------------------------------------------------------------
(* Vocabulary of the properties *)

ActiveStates == {"PENDING", "APPROVED", "ACCEPTED", "SENT"}
TerminalStates == {"REPAID", "DEFAULTED", "CANCELED"}

(* The indices of the records of uid's history that are in an active state *)
ActiveIdx(uid) == {i \in 1..Len(loans[uid]) : loans[uid][i].State \in ActiveStates}

(* The record at index i is a SENT loan whose due date has passed *)
Overdue(uid, i) == loans[uid][i].State = "SENT" /\ loans[uid][i].DueDate < now

(* This step serves a request op of uid: every handler writes res, the     *)
(* clock step does not                                                     *)
Served(op, uid) == res'.op = op /\ res'.uid = uid /\ ticks' = ticks

(* The request served is well formed: it passes the checks made on the     *)
(* request body before the transaction                                     *)
WellFormed ==
    /\ res'.op = "requestLoan" => res'.arg[1] # 0
    /\ res'.op = "selectOffer" => res'.arg # <<FALSE, FALSE>>

(* The step changes nothing that is persisted *)
StoreUnchanged == loans' = loans /\ users' = users

----------------------------------------------------------------------------
(* C1: in every reachable state every borrower's history holds at most one *)
(* record in an active state (PENDING, APPROVED, ACCEPTED, SENT).          *)
C1_SingleActiveLoan == \A u \in Borrowers : Cardinality(ActiveIdx(u)) <= 1

(* A history with a finished loan and an active one, a second application  *)
(* having just been refused                                                *)
C1_Witness ==
    \E u \in Borrowers :
        /\ Len(loans[u]) = 2
        /\ ActiveIdx(u) = {2}
        /\ res.op = "requestLoan" /\ res.err = ErrLoanAlreadyExists

(* C2: a record's state changes only along PENDING->APPROVED,              *)
(* APPROVED->SENT, SENT->REPAID, SENT->DEFAULTED, PENDING->CANCELED and    *)
(* APPROVED->CANCELED, and no record is ever in ACCEPTED or REJECTED.      *)
StateEdges ==
    {<<"PENDING", "APPROVED">>, <<"APPROVED", "SENT">>, <<"SENT", "REPAID">>,
     <<"SENT", "DEFAULTED">>, <<"PENDING", "CANCELED">>, <<"APPROVED", "CANCELED">>}

C2_Step ==
    \A u \in Borrowers :
        /\ \A i \in 1..Len(loans[u]) :
              /\ i <= Len(loans'[u])
              /\ loans'[u][i].State # loans[u][i].State =>
                    <<loans[u][i].State, loans'[u][i].State>> \in StateEdges
        /\ \A i \in 1..Len(loans'[u]) :
              loans'[u][i].State \notin {"ACCEPTED", "REJECTED"}

C2_StateEdges == [][C2_Step]_vars

(* A history whose records went to DEFAULTED and to REPAID *)
C2_Witness ==
    \E u \in Borrowers :
        \E i, j \in 1..Len(loans[u]) :
            loans[u][i].State = "DEFAULTED" /\ loans[u][j].State = "REPAID"

(* C3: once a record is REPAID, DEFAULTED or CANCELED, no step changes any *)
(* of its fields.                                                          *)
C3_Step ==
    \A u \in Borrowers : \A i \in 1..Len(loans[u]) :
        loans[u][i].State \in TerminalStates =>
            i <= Len(loans'[u]) /\ loans'[u][i] = loans[u][i]

C3_TerminalImmutable == [][C3_Step]_vars

(* A repaid loan whose due date has passed, read after a later loan was    *)
(* requested                                                               *)
C3_Witness ==
    \E u \in Borrowers :
        /\ Len(loans[u]) = 2
        /\ loans[u][1].State = "REPAID"
        /\ loans[u][1].DueDate < now
        /\ res.op = "listLoans"

(* C4: a well-formed requestLoan made while the history holds an active    *)
(* record that is not an overdue SENT loan fails with LoanAlreadyExists    *)
(* and changes neither the history nor the profile.                        *)
C4_Step ==
    \A u \in Borrowers :
        (/\ Served("requestLoan", u)
         /\ WellFormed
         /\ \E i \in ActiveIdx(u) : ~Overdue(u, i)) =>
            res'.err = ErrLoanAlreadyExists /\ StoreUnchanged

C4_LoanAlreadyExists == [][C4_Step]_vars

(* A refused application, the active loan being SENT and not overdue *)
C4_Witness ==
    \E u \in Borrowers :
        /\ res.op = "requestLoan" /\ res.err = ErrLoanAlreadyExists
        /\ \E i \in ActiveIdx(u) : loans[u][i].State = "SENT" /\ ~Overdue(u, i)

(* C5: a successful requestLoan appends exactly one record; it is APPROVED *)
(* with at least one offered term, no accepted terms, no due date and no   *)
(* repayments; the profile is unchanged.                                   *)
C5_Step ==
    \A u \in Borrowers :
        (Served("requestLoan", u) /\ res'.err = "nil") =>
            /\ Len(loans'[u]) = Len(loans[u]) + 1
            /\ \A i \in 1..Len(loans[u]) : loans'[u][i].LoanId = loans[u][i].LoanId
            /\ LET new == loans'[u][Len(loans'[u])]
               IN  /\ new.State = "APPROVED"
                   /\ Len(new.Terms) >= 1
                   /\ new.AcceptedTerms = <<>>
                   /\ new.DueDate = 0
                   /\ new.Repayments = <<>>
            /\ users' = users

C5_RequestAppendsApproved == [][C5_Step]_vars

(* A second application answered with the fallback offer alone *)
C5_Witness ==
    \E u \in Borrowers :
        /\ res.op = "requestLoan" /\ res.err = "nil"
        /\ Len(loans[u]) = 2
        /\ loans[u][2].State = "APPROVED"
        /\ Len(loans[u][2].Terms) = 1

----------------------------------------------------------------------------
(* The index of the active record of uid when it is a SENT loan whose due  *)
(* date has passed                                                         *)
OverdueIdx(uid) == {i \in ActiveIdx(uid) : Overdue(uid, i)}

(* The operations that run the default check in their transaction *)
DefaultingOps == {"requestLoan", "getActiveLoan", "repay", "listLoans"}

(* The operations on a loan history *)
HistoryOps == DefaultingOps \cup {"selectOffer", "cancelActiveLoan"}

(* C6: a well-formed requestLoan, getActiveLoan, repay or listLoans served *)
(* while the active record is SENT and past its due date persists that     *)
(* record as DEFAULTED in the same step.                                   *)
C6_Step ==
    \A u \in Borrowers : \A i \in OverdueIdx(u) :
        (res'.op \in DefaultingOps /\ Served(res'.op, u) /\ WellFormed) =>
            loans'[u][i].State = "DEFAULTED"

C6_LazyDefault == [][C6_Step]_vars

(* C6 as stated: each of the six operations on a history, selectOffer and  *)
(* cancelActiveLoan included, defaults the overdue SENT record.            *)
C6_Original_Step ==
    \A u \in Borrowers : \A i \in OverdueIdx(u) :
        (res'.op \in HistoryOps /\ Served(res'.op, u) /\ WellFormed) =>
            loans'[u][i].State = "DEFAULTED"

C6_Original == [][C6_Original_Step]_vars

(* A loan found overdue and defaulted by a read of the active loan, which  *)
(* then answers that there is none                                         *)
C6_Witness ==
    \E u \in Borrowers :
        /\ res.op = "getActiveLoan" /\ res.err = ErrNoActiveLoan
        /\ \E i \in 1..Len(loans[u]) :
              loans[u][i].State = "DEFAULTED" /\ loans[u][i].DueDate < now

(* C7: repay on an active SENT record whose due date has not passed        *)
(* succeeds, appends one Repayment of acceptedTerms.amountOwed, sets the   *)
(* record REPAID with its repaid date, and adds qinRequired + qinReward of *)
(* the accepted terms to the balance.                                      *)
C7_Step ==
    \A u \in Borrowers : \A i \in ActiveIdx(u) :
        (/\ Served("repay", u)
         /\ loans[u][i].State = "SENT"
         /\ ~(loans[u][i].DueDate < now)) =>
            LET old == loans[u][i]
                new == loans'[u][i]
                terms == old.AcceptedTerms[1]
            IN  /\ res'.err = "nil"
                /\ Len(new.Repayments) = Len(old.Repayments) + 1
                /\ new.Repayments[Len(new.Repayments)].Amount = terms.AmountOwed
                /\ new.State = "REPAID"
                /\ new.RepaidDate = now
                /\ new.AcceptedTerms = old.AcceptedTerms
                /\ users'[u][1].QinBalance =
                       users[u][1].QinBalance + terms.QinRequired + terms.QinReward

C7_RepaySettlement == [][C7_Step]_vars

(* A repaid loan for which collateral had been posted, the balance now     *)
(* holding the collateral returned and the reward                          *)
C7_Witness ==
    \E u \in Borrowers :
        /\ res.op = "repay" /\ res.err = "nil"
        /\ \E i \in 1..Len(loans[u]) :
              /\ loans[u][i].State = "REPAID"
              /\ loans[u][i].RepaidDate = now
              /\ loans[u][i].AcceptedTerms[1].QinRequired > 0
              /\ users[u][1].QinBalance >=
                     loans[u][i].AcceptedTerms[1].QinRequired
                       + loans[u][i].AcceptedTerms[1].QinReward

(* C8: repay on a SENT record whose due date has passed answers            *)
(* LoanInDefault; the record is persisted DEFAULTED with no Repayment      *)
(* added and the profile is unchanged.                                     *)
C8_Step ==
    \A u \in Borrowers : \A i \in OverdueIdx(u) :
        Served("repay", u) =>
            /\ res'.err = ErrLoanInDefault
            /\ loans'[u][i] = [loans[u][i] EXCEPT !.State = "DEFAULTED"]
            /\ users' = users

C8_RepayInDefault == [][C8_Step]_vars

(* A refused repayment of a loan for which collateral had been posted *)
C8_Witness ==
    \E u \in Borrowers :
        /\ res.op = "repay" /\ res.err = ErrLoanInDefault
        /\ \E i \in 1..Len(loans[u]) :
              /\ loans[u][i].State = "DEFAULTED"
              /\ loans[u][i].Repayments = <<>>
              /\ loans[u][i].AcceptedTerms[1].QinRequired > 0

----------------------------------------------------------------------------
(* The transaction of SelectLoanOffer as a function of the entities it     *)
(* reads: the profile and the APPROVED record are drawn from bounded sets  *)
(* of User and LoanRecord values, the balance independently of the         *)
(* collateral the offers require.                                          *)

SelectBalances == {0, 5, 10}        \* User.QinBalance, in hundredths
SelectCollaterals == {0, 10}        \* LoanTerms.QinRequired, in hundredths

SelectTerms(termId, required) ==
    [TermId |-> termId, InterestRate |-> 500, QinReward |-> 10,
     QinRequired |-> required, AmountOwed |-> 105000, OfferedBy |-> "OneDaijo"]

SelectRecords(uid) ==
    {[NewLoanRecord(1000) EXCEPT
         !.LoanId = uid \o "-0",
         !.State = "APPROVED",
         !.Terms = <<SelectTerms(uid \o "-0-0", r[1]), SelectTerms(uid \o "-0-1", r[2])>>,
         !.AcceptedTerms = IF acc = 0 THEN <<>>
                           ELSE <<SelectTerms(uid \o "-0-" \o ToString(acc - 1), r[acc])>>] :
       r \in SelectCollaterals \X SelectCollaterals, acc \in 0..2}

SelectUsers ==
    {[QinBalance |-> b, EmploymentInfo |-> <<[EmploymentIncome |-> <<>>]>>,
      ResidenceInfo |-> <<[ResidenceStatus |-> "rent"]>>] : b \in SelectBalances}

InitSelect ==
    /\ users \in [Borrowers -> {<<p>> : p \in SelectUsers}]
    /\ \E lr \in [Borrowers -> UNION {SelectRecords(u) : u \in Borrowers}] :
          /\ \A u \in Borrowers : lr[u] \in SelectRecords(u)
          /\ loans = [u \in Borrowers |-> <<lr[u]>>]
    /\ now \in StartTimes
    /\ ticks = 0
    /\ res = Answer("none", "", "nil", <<>>)
    /\ ProcInit

NextSelect ==
    \E u \in Borrowers, l \in Locations :
        \E s \in TermChoices(u) : SelectLoanOffer(u, s, l)

SpecSelect == InitSelect /\ [][NextSelect]_vars

(* The active record of uid is APPROVED, at index i *)
ApprovedAt(uid, i) == ActiveIdx(uid) = {i} /\ loans[uid][i].State = "APPROVED"

(* The offers of a record that carry the id termId *)
OffersWithId(rec, termId) == {k \in 1..Len(rec.Terms) : rec.Terms[k].TermId = termId}

(* C9: a selectOffer carrying a term id on an APPROVED record answers      *)
(* MalformedRequest when the record has acceptedTerms; else InvalidId when *)
(* the id is none of the record's offers; else NotEnoughCollateral when    *)
(* the balance is less than the offer's required collateral; each time     *)
(* with history and profile unchanged.  Otherwise it succeeds and          *)
(* acceptedTerms is that offer.                                            *)
C9_Step ==
    \A u \in Borrowers : \A i \in 1..Len(loans[u]) :
        (Served("selectOffer", u) /\ res'.arg[1] /\ ApprovedAt(u, i)) =>
            \A l \in Locations : \A s \in TermChoices(u) \ {""} :
                SelectLoanOffer(u, s, l) =>
                    LET rec == loans[u][i]
                        offers == OffersWithId(rec, s)
                    IN  IF rec.AcceptedTerms # <<>>
                        THEN res'.err = ErrBadJsonPopulation /\ StoreUnchanged
                        ELSE IF offers = {}
                        THEN res'.err = ErrInvalidId /\ StoreUnchanged
                        ELSE IF \E k \in offers :
                                   users[u][1].QinBalance < rec.Terms[k].QinRequired
                        THEN res'.err = ErrNotEnoughQin /\ StoreUnchanged
                        ELSE /\ res'.err = "nil"
                             /\ \E k \in offers :
                                   loans'[u][i].AcceptedTerms = <<rec.Terms[k]>>

C9_SelectTerm == [][C9_Step]_vars

(* A selection refused for want of collateral, the record still without    *)
(* acceptedTerms                                                           *)
C9_Witness ==
    \E u \in Borrowers :
        /\ res.op = "selectOffer" /\ res.err = ErrNotEnoughQin
        /\ loans[u][1].State = "APPROVED"
        /\ loans[u][1].AcceptedTerms = <<>>
        /\ \E k \in 1..Len(loans[u][1].Terms) :
              users[u][1].QinBalance < loans[u][1].Terms[k].QinRequired

(* C10: a selectOffer carrying a pickup location and no term id, on an     *)
(* APPROVED record without acceptedTerms, answers MalformedRequest and     *)
(* changes neither history nor profile; and no step leaves a SENT record   *)
(* without acceptedTerms.                                                  *)
C10_Step ==
    \A u \in Borrowers :
        /\ \A i \in 1..Len(loans[u]) :
              (/\ Served("selectOffer", u)
               /\ res'.arg = <<FALSE, TRUE>>
               /\ ApprovedAt(u, i)
               /\ loans[u][i].AcceptedTerms = <<>>) =>
                  /\ res'.err = ErrBadJsonPopulation
                  /\ StoreUnchanged
                  /\ loans'[u][i].State = "APPROVED"
                  /\ loans'[u][i].Location = ""
                  /\ loans'[u][i].DueDate = 0
        /\ \A i \in 1..Len(loans'[u]) :
              loans'[u][i].State = "SENT" => loans'[u][i].AcceptedTerms # <<>>

C10_PickupAfterTerms == [][C10_Step]_vars

(* A pickup refused on a record whose terms were not selected *)
C10_Witness ==
    \E u \in Borrowers :
        /\ res.op = "selectOffer" /\ res.arg = <<FALSE, TRUE>>
        /\ res.err = ErrBadJsonPopulation
        /\ \E i \in 1..Len(loans[u]) :
              loans[u][i].State = "APPROVED" /\ loans[u][i].AcceptedTerms = <<>>

----------------------------------------------------------------------------
(* C11: a selectOffer carrying a pickup location on an APPROVED record     *)
(* either succeeds, and then the balance is decreased by the accepted      *)
(* terms' qinRequired, the location is recorded, the due date is a         *)
(* whole-day boundary with now + 29 days < dueDate <= now + 30 days and    *)
(* the record is SENT; or it fails and history and profile are unchanged.  *)
C11_Step ==
    \A u \in Borrowers : \A i \in 1..Len(loans[u]) :
        (Served("selectOffer", u) /\ res'.arg[2] /\ ApprovedAt(u, i)) =>
            IF res'.err = "nil"
            THEN LET new == loans'[u][i]
                 IN  /\ new.State = "SENT"
                     /\ new.AcceptedTerms # <<>>
                     /\ users'[u][1].QinBalance =
                            users[u][1].QinBalance - new.AcceptedTerms[1].QinRequired
                     /\ new.Location \in Locations \ {""}
                     /\ new.DueDate % TicksPerDay = 0
                     /\ now + (LOAN_DAYS - 1) * TicksPerDay < new.DueDate
                     /\ new.DueDate <= now + LOAN_DAYS * TicksPerDay
            ELSE StoreUnchanged

C11_PickupEffects == [][C11_Step]_vars

(* A pickup made at noon, for which collateral was debited: the due date   *)
(* is rounded down to midnight                                             *)
C11_Witness ==
    \E u \in Borrowers :
        /\ res.op = "selectOffer" /\ res.err = "nil" /\ res.arg[2]
        /\ \E i \in 1..Len(loans[u]) :
              /\ loans[u][i].State = "SENT"
              /\ loans[u][i].AcceptedTerms[1].QinRequired > 0
              /\ loans[u][i].DueDate < now + LOAN_DAYS * TicksPerDay

(* C12: in every reachable state every profile's balance is >= 0 (so every *)
(* pickup debit was of at most the balance held), and the internal error   *)
(* 'user has less QIN than when loan was selected' is never answered.      *)
C12_BalanceNonNegative ==
    /\ \A u \in Borrowers : users[u] # <<>> => users[u][1].QinBalance >= 0
    /\ res.err # ErrLessQin

(* A pickup that debited collateral from a balance that covered it *)
C12_Witness ==
    \E u \in Borrowers :
        /\ users[u] # <<>>
        /\ res.op = "selectOffer" /\ res.err = "nil"
        /\ \E i \in ActiveIdx(u) :
              /\ loans[u][i].State = "SENT"
              /\ loans[u][i].AcceptedTerms[1].QinRequired > 0
              /\ users[u][1].QinBalance >= 0

(* C13: repay while the active record is not SENT, a well-formed           *)
(* selectOffer while it is not APPROVED, and cancelActiveLoan while it is  *)
(* SENT each answer LoanInWrongState and change neither history nor        *)
(* profile.                                                                *)
C13_Step ==
    \A u \in Borrowers : \A i \in ActiveIdx(u) :
        LET st == loans[u][i].State
        IN  (\/ Served("repay", u) /\ st # "SENT"
             \/ Served("selectOffer", u) /\ WellFormed /\ st # "APPROVED"
             \/ Served("cancelActiveLoan", u) /\ st = "SENT") =>
                res'.err = ErrLoanInWrongState /\ StoreUnchanged

C13_WrongState == [][C13_Step]_vars

(* A selection refused on a loan already sent *)
C13_Witness ==
    \E u \in Borrowers :
        /\ res.op = "selectOffer" /\ res.err = ErrLoanInWrongState
        /\ \E i \in ActiveIdx(u) : loans[u][i].State = "SENT"

(* C14: cancelActiveLoan while the active record is PENDING or APPROVED    *)
(* succeeds, changes that record's state to CANCELED and nothing else in   *)
(* history or profile, and leaves no active record; a well-formed          *)
(* requestLoan served when the history's records are all finished, the     *)
(* last one CANCELED, succeeds.                                            *)
C14_Step ==
    \A u \in Borrowers :
        /\ \A i \in ActiveIdx(u) :
              (Served("cancelActiveLoan", u)
                 /\ loans[u][i].State \in {"PENDING", "APPROVED"}) =>
                  /\ res'.err = "nil"
                  /\ loans'[u] = [loans[u] EXCEPT ![i].State = "CANCELED"]
                  /\ users' = users
                  /\ \A j \in 1..Len(loans'[u]) : loans'[u][j].State \notin ActiveStates
        /\ (/\ Served("requestLoan", u) /\ WellFormed
            /\ ActiveIdx(u) = {}
            /\ Len(loans[u]) > 0
            /\ loans[u][Len(loans[u])].State = "CANCELED") =>
                res'.err = "nil"

C14_Cancel == [][C14_Step]_vars

(* A new application accepted after the cancellation of a loan whose terms *)
(* had been chosen                                                         *)
C14_Witness ==
    \E u \in Borrowers :
        /\ res.op = "requestLoan" /\ res.err = "nil"
        /\ Len(loans[u]) = 2
        /\ loans[u][1].State = "CANCELED"
        /\ loans[u][1].AcceptedTerms # <<>>
        /\ loans[u][2].State = "APPROVED"

----------------------------------------------------------------------------
(* The transaction of LoanRequestFun as a function of the entities it      *)
(* reads and of the request: the profile balance and a history of finished *)
(* loans are drawn from bounded sets, independently of each other.         *)

RequestBalances == {0, 2, 13, 500}              \* User.QinBalance, in hundredths
RequestAmounts == {0, 1000, 20000, -1000}       \* LoanRequest.LoanAmount
RequestDraws == {<<0, 1>>, <<1, 2>>, <<9, 10>>} \* values of rand.Float64()

(* The k-th record of uid's history, finished in state st *)
FinishedRecord(uid, k, st) ==
    LET loanId == uid \o "-" \o ToString(k - 1)
    IN  [NewLoanRecord(1000) EXCEPT
            !.LoanId = loanId,
            !.State = st,
            !.Terms = <<FallbackTerms(loanId, 1000)>>,
            !.AcceptedTerms = IF st = "CANCELED" THEN <<>>
                              ELSE <<FallbackTerms(loanId, 1000)>>,
            !.Location = IF st = "CANCELED" THEN "" ELSE "loc",
            !.DueDate = IF st = "CANCELED" THEN 0 ELSE TicksPerDay]

(* The histories of finished loans that leave room for one more record *)
RequestHistories(uid) ==
    UNION {{[k \in 1..n |-> FinishedRecord(uid, k, f[k])] :
               f \in [1..n -> TerminalStates]} : n \in 0..(MaxLoans - 1)}

RequestUsers ==
    {[QinBalance |-> b, EmploymentInfo |-> <<[EmploymentIncome |-> <<>>]>>,
      ResidenceInfo |-> <<[ResidenceStatus |-> "rent"]>>] : b \in RequestBalances}

InitRequest ==
    /\ users \in [Borrowers -> {<<p>> : p \in RequestUsers}]
    /\ \E h \in [Borrowers -> UNION {RequestHistories(u) : u \in Borrowers}] :
          /\ \A u \in Borrowers : h[u] \in RequestHistories(u)
          /\ loans = h
    /\ now \in StartTimes
    /\ ticks = 0
    /\ res = Answer("none", "", "nil", <<>>)
    /\ ProcInit

NextRequest ==
    \E u \in Borrowers, a \in RequestAmounts, r \in RequestDraws :
        LoanRequestFun(u, a, r)

SpecRequest == InitRequest /\ [][NextRequest]_vars

(* The BorrowerApp and BorrowerInformation of an application of amount by  *)
(* uid, read off the store                                                 *)
AppOf(uid, amount) ==
    [borrower_id |-> uid, principal_amount |-> amount, stated_monthly_income |-> 0]

FinishedLoans(uid) ==
    Cardinality({j \in 1..Len(loans[uid]) : loans[uid][j].State \in {"REPAID", "DEFAULTED"}})

RepaidLoans(uid) ==
    Cardinality({j \in 1..Len(loans[uid]) : loans[uid][j].State = "REPAID"})

InfoOf(uid) ==
    [earned_qin |-> users[uid][1].QinBalance, no_loans |-> FinishedLoans(uid),
     successful_loans |-> RepaidLoans(uid)]

(* The record the step created *)
Created(uid) == loans'[uid][Len(loans'[uid])]

(* The k-th smallest element of a set of numbers *)
Kth(S, k) == CHOOSE i \in S : Cardinality({j \in S : j < i}) = k - 1

(* C15: when no registered assessor offers, the created record carries     *)
(* exactly one term: id loanId-0, rate 0.05, qinReward 0.10, qinRequired   *)
(* 0, offered by the platform; when some offer, it carries one term per    *)
(* offering assessor, in registry order, and no term of the platform.      *)
C15_Step ==
    \A u \in Borrowers :
        (Served("requestLoan", u) /\ res'.err = "nil") =>
            \A a \in RequestAmounts : \A r \in RequestDraws :
                LoanRequestFun(u, a, r) =>
                    LET slots == processBorrowerRequest(eraDriver, AppOf(u, a), InfoOf(u), r)
                        offering == {i \in 1..Len(slots) : slots[i] # <<>>}
                        terms == Created(u).Terms
                    IN  IF offering = {}
                        THEN /\ Len(terms) = 1
                             /\ terms[1].TermId = Created(u).LoanId \o "-0"
                             /\ terms[1].InterestRate = 500
                             /\ terms[1].QinReward = 10
                             /\ terms[1].QinRequired = 0
                             /\ terms[1].OfferedBy = "OneDaijo"
                        ELSE /\ Len(terms) = Cardinality(offering)
                             /\ \A k \in 1..Len(terms) :
                                   /\ terms[k].OfferedBy =
                                          eraDriver._era_external_names[Kth(offering, k)]
                                   /\ terms[k].OfferedBy # "OneDaijo"

C15_Fallback == [][C15_Step]_vars

(* An application of a borrower with a defaulted loan and no balance, that *)
(* two assessors reject on probability and two for want of collateral: the *)
(* record carries the platform's offer alone                               *)
C15_Witness ==
    \E u \in Borrowers :
        /\ res.op = "requestLoan" /\ res.err = "nil" /\ res.arg = <<20000>>
        /\ users[u][1].QinBalance = 0
        /\ Len(loans[u]) = 2
        /\ loans[u][1].State = "DEFAULTED"
        /\ Len(loans[u][2].Terms) = 1
        /\ loans[u][2].Terms[1].OfferedBy = "OneDaijo"

(* C16: a well-formed requestLoan with no active record raises no error,   *)
(* and for each registered assessor: the collateral it requires is 0 when  *)
(* fewer than GRACE_NUM_LOANS records are REPAID or DEFAULTED, and         *)
(* computeQinCollateral(prob, number of REPAID records) otherwise; it      *)
(* contributes a term, carrying that collateral, exactly when it does not  *)
(* reject on probability and the balance is not less than that collateral. *)
C16_Step ==
    \A u \in Borrowers :
        (Served("requestLoan", u) /\ WellFormed /\ ActiveIdx(u) = {}) =>
            /\ res'.err = "nil"
            /\ \A a \in RequestAmounts : \A r \in RequestDraws :
                  LoanRequestFun(u, a, r) =>
                      \A i \in 1..eraDriver._num_eras :
                          LET era == eraDriver._eras[i]
                              prob == ClampProb(predictProbDefault(era, AppOf(u, a), r))
                              required ==
                                  IF FinishedLoans(u) < GRACE_NUM_LOANS THEN RInt(0)
                                  ELSE computeQinCollateral(era, prob, RepaidLoans(u))
                              offers ==
                                  /\ ~rejectBorrower(era, prob)
                                  /\ ~RLess(Rat(users[u][1].QinBalance, 100), required)
                              terms == Created(u).Terms
                              mine == {k \in 1..Len(terms) :
                                          terms[k].OfferedBy =
                                              eraDriver._era_external_names[i]}
                          IN  IF offers
                              THEN /\ Cardinality(mine) = 1
                                   /\ \A k \in mine :
                                         terms[k].QinRequired =
                                             Round(RMul(required, RInt(100)))
                              ELSE mine = {}

C16_CollateralGate == [][C16_Step]_vars

(* An application of a borrower with one repaid loan and no balance: every *)
(* assessor requires collateral, none offers, and the request succeeds     *)
C16_Witness ==
    \E u \in Borrowers :
        /\ res.op = "requestLoan" /\ res.err = "nil" /\ res.arg = <<1000>>
        /\ users[u][1].QinBalance = 0
        /\ Len(loans[u]) = 2
        /\ loans[u][1].State = "REPAID"
        /\ \A k \in 1..Len(loans[u][2].Terms) :
              loans[u][2].Terms[k].OfferedBy \notin
                  {eraDriver._era_external_names[i] : i \in 1..eraDriver._num_eras}

(* The integer n is the rational y rounded to the nearest integer, a half  *)
(* rounded away from zero                                                  *)
IsRounded(n, y) ==
    IF y[1] >= 0
    THEN (2 * n - 1) * y[2] <= 2 * y[1] /\ 2 * y[1] < (2 * n + 1) * y[2]
    ELSE (2 * n - 1) * y[2] < 2 * y[1] /\ 2 * y[1] <= (2 * n + 1) * y[2]

(* amountOwed, in hundredths, is (1 + rate) * principal rounded to 0.01,   *)
(* for the stored rate in units of 0.0001                                  *)
OwedIsRounded(term, amount) ==
    IsRounded(term.AmountOwed,
              RMul(RMul(RAdd(RInt(1), Rat(term.InterestRate, 10000)), RInt(amount)),
                   RInt(100)))

(* C20: every term of a created record that an assessor offered carries    *)
(* the assessor's rate rounded to the nearest 0.0001 and its reward and    *)
(* its collateral rounded to the nearest 0.01, halves away from zero; and  *)
(* the amountOwed of every term, the platform's included, is               *)
(* (1 + rounded rate) * principal rounded to the nearest 0.01.             *)
C20_Step ==
    \A u \in Borrowers :
        (Served("requestLoan", u) /\ res'.err = "nil") =>
            \A a \in RequestAmounts : \A r \in RequestDraws :
                LoanRequestFun(u, a, r) =>
                    LET slots == processBorrowerRequest(eraDriver, AppOf(u, a), InfoOf(u), r)
                        offering == {i \in 1..Len(slots) : slots[i] # <<>>}
                        terms == Created(u).Terms
                    IN  /\ \A k \in 1..Len(terms) : OwedIsRounded(terms[k], a)
                        /\ offering # {} =>
                              \A k \in 1..Len(terms) :
                                  LET e == slots[Kth(offering, k)][1]
                                  IN  /\ IsRounded(terms[k].InterestRate,
                                                   RMul(e.interest_rate, RInt(10000)))
                                      /\ IsRounded(terms[k].QinReward,
                                                   RMul(e.qin_reward, RInt(100)))
                                      /\ IsRounded(terms[k].QinRequired,
                                                   RMul(e.qin_collateral, RInt(100)))

C20_Rounding == [][C20_Step]_vars

(* An application for 1000 by a borrower with one repaid loan: the         *)
(* assessor with rate 0.05 and collateral 0.125 offers a term with rate    *)
(* 0.0500, 1050.00 owed and 0.13 required                                  *)
C20_Witness ==
    \E u \in Borrowers :
        /\ res.op = "requestLoan" /\ res.err = "nil" /\ res.arg = <<1000>>
        /\ Len(loans[u]) = 2
        /\ loans[u][1].State = "REPAID"
        /\ \E k \in 1..Len(loans[u][2].Terms) :
              /\ loans[u][2].Terms[k].OfferedBy = "ABC Analytica"
              /\ loans[u][2].Terms[k].InterestRate = 500
              /\ loans[u][2].Terms[k].AmountOwed = 105000
              /\ loans[u][2].Terms[k].QinRequired = 13

----------------------------------------------------------------------------
(* The assessment functions, called on inputs drawn from bounded sets; res *)
(* records the call: the function, and in arg its inputs and its result.   *)

MaxSuccessful == 2      \* loans counted in a BorrowerInformation

BuiltinERAs == {kKiva, kProsper, kNaive, kRandom}

AssessAmounts == {1000, 20000, -1000}           \* BorrowerApp.principal_amount
AssessBalances == {0, 13, 500}                  \* earned_qin, in hundredths
AssessInfos ==
    {[earned_qin |-> q, no_loans |-> n, successful_loans |-> k] :
        q \in AssessBalances, n \in 0..MaxSuccessful, k \in 0..MaxSuccessful}

(* Probabilities of default in [0, 1] *)
ProbGrid == {<<0, 1>>, <<1063, 10000>>, <<1, 2>>, <<3, 4>>, <<1, 1>>}

(* A call of processBorrowerApp: one application is assessed *)
Assess(era, amount, info, rnd) ==
    /\ res.op = "none"
    /\ info.successful_loans <= info.no_loans
    /\ res' = Answer("processBorrowerApp", "", "nil",
                     <<era, info,
                       processBorrowerApp(era,
                           [borrower_id |-> "u1", principal_amount |-> amount,
                            stated_monthly_income |-> 0],
                           info, RMul(ERA_INTEREST_FRACTION, RInt(amount)), era, rnd)>>)
    /\ UNCHANGED <<users, loans, now, ticks, procVars>>

(* A call of computeQinCollateral: a first call, or the next call for the  *)
(* same assessor and probability after one more successful loan            *)
Collateral(era, prob_default, num_successful_loans) ==
    /\ \/ res.op = "none"
       \/ /\ res.op = "computeQinCollateral"
          /\ era = res.arg[1]
          /\ prob_default = res.arg[2]
          /\ num_successful_loans = res.arg[3] + 1
    /\ res' = Answer("computeQinCollateral", "", "nil",
                     <<era, prob_default, num_successful_loans,
                       computeQinCollateral(era, prob_default, num_successful_loans)>>)
    /\ UNCHANGED <<users, loans, now, ticks, procVars>>

NextERA ==
    \/ \E era \in BuiltinERAs \cup StubERAs, a \in AssessAmounts, info \in AssessInfos,
          r \in RequestDraws : Assess(era, a, info, r)
    \/ \E era \in BuiltinERAs, p \in ProbGrid, n \in 0..MaxSuccessful :
          Collateral(era, p, n)

SpecERA == Init /\ [][NextERA]_vars

(* x is a number with lo <= x <= hi *)
InRange(x, lo, hi) == ~IsNaN(x) /\ ~RLess(x, lo) /\ ~RLess(hi, x)

(* The response out has its rate and its reward in range *)
ResponseInRange(out) ==
    /\ InRange(out.interest_rate, RInt(0), MAX_INTEREST_RATE)
    /\ ~IsNaN(out.qin_reward) /\ ~RLess(out.qin_reward, RInt(0))

(* The response to a stub assessor shows a probability passed in range     *)
(* (the stub's collateral echoes it), and is not a rejection when the      *)
(* balance covers any collateral up to 1                                   *)
StubPassedInRange(info, out) ==
    /\ info.earned_qin >= 100 => out # <<>>
    /\ (out # <<>> /\ info.no_loans >= GRACE_NUM_LOANS) =>
          InRange(out[1].qin_collateral, RInt(0), RInt(1))

(* C17: whatever raw values an assessor returns, every response of         *)
(* processBorrowerApp has 0 <= interest_rate <= MAX_INTEREST_RATE and      *)
(* qin_reward >= 0, the probability passed to the assessor's other methods *)
(* lies in [0, 1], and values out of range are clamped, not turned into a  *)
(* rejection.                                                              *)
C17_Clamping ==
    res.op = "processBorrowerApp" =>
        /\ res.arg[3] # <<>> => ResponseInRange(res.arg[3][1])
        /\ res.arg[1] \in StubERAs => StubPassedInRange(res.arg[2], res.arg[3])

(* C17 for the assessors that return numbers: the statement holds when no  *)
(* raw value is NaN.                                                       *)
C17_ClampingOfNumbers ==
    (res.op = "processBorrowerApp" /\ res.arg[1] # "StubNaN") =>
        /\ res.arg[3] # <<>> => ResponseInRange(res.arg[3][1])
        /\ res.arg[1] \in StubERAs => StubPassedInRange(res.arg[2], res.arg[3])

(* The response to an assessor returning NaN: the NaN probability was      *)
(* passed on and the rate and the reward of the response are NaN           *)
C17_Witness ==
    /\ res.op = "processBorrowerApp"
    /\ res.arg[1] = "StubNaN"
    /\ res.arg[2].no_loans >= GRACE_NUM_LOANS
    /\ res.arg[3] # <<>>
    /\ IsNaN(res.arg[3][1].qin_collateral)
    /\ IsNaN(res.arg[3][1].interest_rate)
    /\ IsNaN(res.arg[3][1].qin_reward)

(* The response to an assessor whose probability, rate and reward are all  *)
(* above range: probability 1 passed on, rate cut to the maximum           *)
C17_ClampedWitness ==
    /\ res.op = "processBorrowerApp"
    /\ res.arg[1] = "StubHigh"
    /\ res.arg[2].no_loans >= GRACE_NUM_LOANS
    /\ res.arg[3] # <<>>
    /\ res.arg[3][1].qin_collateral = RInt(1)
    /\ res.arg[3][1].interest_rate = MAX_INTEREST_RATE

(* C18: of two calls of a built-in assessor's computeQinCollateral with    *)
(* the same probability, the one with the larger count of successful loans *)
(* returns no more than the other.                                         *)
C18_Step ==
    (/\ res.op = "computeQinCollateral"
     /\ res'.op = "computeQinCollateral"
     /\ res'.arg[1] = res.arg[1]
     /\ res'.arg[2] = res.arg[2]
     /\ res'.arg[3] >= res.arg[3]) =>
        ~RLess(res.arg[4], res'.arg[4])

C18_CollateralMonotone == [][C18_Step]_vars

(* A call with one successful loan that returned less than                 *)
(* prob * MAX_QIN_COLLATERAL                                               *)
C18_Witness ==
    /\ res.op = "computeQinCollateral"
    /\ res.arg[3] >= 1
    /\ RLess(res.arg[4], RMul(res.arg[2], MAX_QIN_COLLATERAL))

----------------------------------------------------------------------------
(* The default check applied twice to the stored histories, under Spec *)

(* The times of a second application of the check after one at time now:   *)
(* the same time, the next tick, and past any due date set by now          *)
LaterTimes == {now, now + 1, now + LOAN_DAYS * TicksPerDay + 1}

(* The check applied to the history of uid at time now *)
Once(uid) == DefaultActiveLoanIfNecessary(loans[uid], now)

(* The check applied again, at time t, to the result of Once *)
Twice(uid, t) == DefaultActiveLoanIfNecessary(Once(uid).records, t)

(* The active record of uid is SENT and falls due after now and before t *)
FallsDueBy(uid, t) ==
    \E i \in ActiveIdx(uid) :
        /\ loans[uid][i].State = "SENT"
        /\ now <= loans[uid][i].DueDate
        /\ loans[uid][i].DueDate < t

(* C19: the default check applied to a history twice at the same time      *)
(* yields the history of one application, and the second application       *)
(* reports no modification; applied again at a later time it yields the    *)
(* history of one application at that later time, and the second           *)
(* application modifies exactly when the active record is SENT and fell    *)
(* due between the two.                                                    *)
C19_DefaultIdempotent ==
    \A u \in Borrowers :
        /\ Twice(u, now).records = Once(u).records
        /\ ~Twice(u, now).didModify
        /\ \A t \in LaterTimes :
              /\ Twice(u, t).records = DefaultActiveLoanIfNecessary(loans[u], t).records
              /\ Twice(u, t).didModify <=> FallsDueBy(u, t)

(* C19 as stated: at the same or any later time the second application     *)
(* leaves the history of the first and reports no modification.            *)
C19_Original ==
    \A u \in Borrowers : \A t \in LaterTimes :
        /\ Twice(u, t).records = Once(u).records
        /\ ~Twice(u, t).didModify

(* A stored history whose SENT record is past due: the first application   *)
(* defaults it, and the second, at any of the times, changes nothing       *)
C19_Witness ==
    \E u \in Borrowers :
        /\ Once(u).didModify
        /\ Once(u).records # loans[u]
        /\ \A t \in LaterTimes : Twice(u, t).records = Once(u).records

(* A stored history whose SENT record is not yet due: the first            *)
(* application leaves it, the second, after the due date, defaults it      *)
C19_FallsDueWitness ==
    \E u \in Borrowers : \E t \in LaterTimes :
        /\ ~Once(u).didModify
        /\ Twice(u, t).didModify

----------------------------------------------------------------------------
(* The pool of datastore clients: ManageDbClients and the two channels.    *)
(* A client is the number of its creation, NilClient is the nil pointer.   *)
(* A buffered channel is the sequence of the values in it; a send appends, *)
(* a receive takes the head.                                               *)

(* log.Fatalf has not ended the process *)
Running == dbManager.pc # "exited"

(* The client the manager pushes after datastore.NewClient: a new client,  *)
(* or nil when NewClient returned an error                                 *)
NewClient(ok) == IF ok THEN dbManager.created + 1 ELSE NilClient

(* One turn of the pre-warming loop (lines 337-345): a client is created   *)
(* and sent to getDbClient; a failure ends the process                     *)
Prewarm(ok) ==
    /\ dbManager.pc = "prewarm"
    /\ IF ok
       THEN /\ Len(getDbClient) < kNumDbClients
            /\ getDbClient' = Append(getDbClient, NewClient(ok))
            /\ dbManager' = [pc |-> IF dbManager.i + 1 < kNumDbClients
                                    THEN "prewarm" ELSE "serve",
                             i |-> dbManager.i + 1,
                             created |-> dbManager.created + 1]
       ELSE /\ dbManager' = [dbManager EXCEPT !.pc = "exited"]
            /\ UNCHANGED getDbClient
    /\ UNCHANGED <<returnDbClient, authServer, callers, sent>>
    /\ UNCHANGED <<users, loans, now, ticks, res>>

(* The select case of a client handed back, with the client dropped        *)
RecycleClient_Drops ==
    /\ dbManager.pc = "serve"
    /\ returnDbClient # <<>>
    /\ Head(returnDbClient) # NilClient
    /\ returnDbClient' = Tail(returnDbClient)
    /\ UNCHANGED <<getDbClient, dbManager, authServer, callers, sent>>
    /\ UNCHANGED <<users, loans, now, ticks, res>>

(* The select case of a client handed back (lines 349-351): it goes to the *)
(* back of getDbClient                                                     *)
RecycleClient ==
    /\ dbManager.pc = "serve"
    /\ returnDbClient # <<>>
    /\ Head(returnDbClient) # NilClient
    /\ Len(getDbClient) < kNumDbClients
    /\ getDbClient' = Append(getDbClient, Head(returnDbClient))
    /\ returnDbClient' = Tail(returnDbClient)
    /\ UNCHANGED <<dbManager, authServer, callers, sent>>
    /\ UNCHANGED <<users, loans, now, ticks, res>>

(* The select case of a nil handed back, with the new client sent to the   *)
(* front of the channel                                                    *)
ReplaceClient_Front(ok) ==
    /\ dbManager.pc = "serve"
    /\ returnDbClient # <<>>
    /\ Head(returnDbClient) = NilClient
    /\ Len(getDbClient) < kNumDbClients
    /\ ok => dbManager.created < MaxCreated
    /\ getDbClient' = <<NewClient(ok)>> \o getDbClient
    /\ returnDbClient' = Tail(returnDbClient)
    /\ dbManager' = [dbManager EXCEPT !.created = IF ok THEN @ + 1 ELSE @]
    /\ UNCHANGED <<authServer, callers, sent>>
    /\ UNCHANGED <<users, loans, now, ticks, res>>

(* The select case of a nil handed back (lines 352-359): a client is       *)
(* created and sent to getDbClient; when the creation fails the error is   *)
(* printed and the nil client is sent                                      *)
ReplaceClient(ok) ==
    /\ dbManager.pc = "serve"
    /\ returnDbClient # <<>>
    /\ Head(returnDbClient) = NilClient
    /\ Len(getDbClient) < kNumDbClients
    /\ ok => dbManager.created < MaxCreated
    /\ getDbClient' = Append(getDbClient, NewClient(ok))
    /\ returnDbClient' = Tail(returnDbClient)
    /\ dbManager' = [dbManager EXCEPT !.created = IF ok THEN @ + 1 ELSE @]
    /\ UNCHANGED <<authServer, callers, sent>>
    /\ UNCHANGED <<users, loans, now, ticks, res>>

(* A user of the pool reading the client at the front of getDbClient and   *)
(* leaving it there                                                        *)
Acquire_Peeks(c) ==
    /\ Running
    /\ callers[c].pc = "idle"
    /\ getDbClient # <<>>
    /\ callers' = [callers EXCEPT ![c].pc = "holding",
                                  ![c].dbClient = Head(getDbClient),
                                  ![c].got = Append(@, Head(getDbClient))]
    /\ res' = Answer("acquire", c, "nil", <<Head(getDbClient)>>)
    /\ UNCHANGED <<getDbClient, returnDbClient, dbManager, authServer, sent>>
    /\ UNCHANGED <<users, loans, now, ticks>>

(* A user of the pool takes a client: dbClient := <-getDbClient *)
Acquire(c) ==
    /\ Running
    /\ callers[c].pc = "idle"
    /\ getDbClient # <<>>
    /\ callers' = [callers EXCEPT ![c].pc = "holding",
                                  ![c].dbClient = Head(getDbClient),
                                  ![c].got = Append(@, Head(getDbClient))]
    /\ getDbClient' = Tail(getDbClient)
    /\ res' = Answer("acquire", c, "nil", <<Head(getDbClient)>>)
    /\ UNCHANGED <<returnDbClient, dbManager, authServer, sent>>
    /\ UNCHANGED <<users, loans, now, ticks>>

(* It hands the client back: returnDbClient <- dbClient *)
Release(c) ==
    /\ Running
    /\ callers[c].pc = "holding"
    /\ Len(returnDbClient) < kNumDbClients
    /\ returnDbClient' = Append(returnDbClient, callers[c].dbClient)
    /\ callers' = [callers EXCEPT ![c] = CallerStart]
    /\ res' = Answer("release", c, "nil", <<callers[c].dbClient, dbManager.created>>)
    /\ UNCHANGED <<getDbClient, dbManager, authServer, sent>>
    /\ UNCHANGED <<users, loans, now, ticks>>

(* It hands back nil in place of a client that has a problem (line 353):   *)
(* returnDbClient <- nil                                                   *)
ReleaseInvalid(c) ==
    /\ Running
    /\ callers[c].pc = "holding"
    /\ Len(returnDbClient) < kNumDbClients
    /\ returnDbClient' = Append(returnDbClient, NilClient)
    /\ callers' = [callers EXCEPT ![c] = CallerStart]
    /\ res' = Answer("releaseInvalid", c, "nil", <<callers[c].dbClient, dbManager.created>>)
    /\ UNCHANGED <<getDbClient, dbManager, authServer, sent>>
    /\ UNCHANGED <<users, loans, now, ticks>>

NextPool ==
    \/ \E ok \in BOOLEAN : Prewarm(ok)
    \/ RecycleClient
    \/ \E ok \in BOOLEAN : ReplaceClient(ok)
    \/ \E c \in Callers : Acquire(c)
    \/ \E c \in Callers : Release(c)
    \/ \E c \in Callers : ReleaseInvalid(c)

SpecPool == Init /\ [][NextPool]_vars

(* The elements of a sequence *)
Range(q) == {q[i] : i \in 1..Len(q)}

(* The callers that hold a client *)
Holders ==
    {c \in Callers : /\ callers[c].pc \in {"holding", "tx", "release"}
                     /\ callers[c].dbClient # NilClient}

(* The clients idle in the pool, and those checked out *)
IdleClients == Range(getDbClient) \ {NilClient}
HeldClients == {callers[c].dbClient : c \in Holders}

(* The number of places i of a sequence that hold a client *)
LiveIn(q) == Cardinality({i \in 1..Len(q) : q[i] # NilClient})

(* C21: once the pool is pre-warmed, in every reachable state the clients  *)
(* idle in the pool, those checked out by a caller and the places awaiting *)
(* recycling in returnDbClient number kNumDbClients together, whatever the *)
(* sequence of valid and invalid releases; hence at most kNumDbClients     *)
(* callers hold a client at once.                                          *)
C21_PoolSize ==
    dbManager.pc = "serve" =>
        /\ LiveIn(getDbClient) + Cardinality(Holders) + Len(returnDbClient)
               = kNumDbClients
        /\ Cardinality(Holders) <= kNumDbClients

(* C21 for the places of the pool: the places of getDbClient, the callers  *)
(* between an acquire and a release, and the places of returnDbClient      *)
(* number kNumDbClients together, a nil counted like a client.             *)
C21_PoolPlaces ==
    dbManager.pc = "serve" =>
        Len(getDbClient) + Len(returnDbClient)
            + Cardinality({c \in Callers : callers[c].pc = "holding"}) = kNumDbClients

(* The pool after a replacement that failed: a nil is idle in getDbClient  *)
(* in the place of a client                                                *)
C21_Witness ==
    /\ dbManager.pc = "serve"
    /\ NilClient \in Range(getDbClient)
    /\ LiveIn(getDbClient) + Cardinality(Holders) + Len(returnDbClient) < kNumDbClients

(* Every client there is: idle, checked out, or handed back *)
AllClients == IdleClients \cup HeldClients \cup (Range(returnDbClient) \ {NilClient})

(* C22: when the manager takes a nil from returnDbClient it sends to the   *)
(* back of getDbClient a client that did not exist before, or nil when the *)
(* creation failed; and an acquire takes the client at the front.          *)
C22_Step ==
    /\ (/\ returnDbClient # <<>>
        /\ Head(returnDbClient) = NilClient
        /\ returnDbClient' = Tail(returnDbClient)) =>
           \E h \in 0..(MaxCreated + 1) :
               /\ getDbClient' = Append(getDbClient, h)
               /\ h # NilClient => h \notin AllClients /\ h > dbManager.created
    /\ (res'.op = "acquire" /\ res' # res) =>
           /\ getDbClient # <<>>
           /\ res'.arg[1] = Head(getDbClient)
           /\ getDbClient' = Tail(getDbClient)

C22_Replacement == [][C22_Step]_vars

(* C22 as stated: the acquire that follows an invalid release returns a    *)
(* client created after that release.                                      *)
C22_Original_Step ==
    (res.op = "releaseInvalid" /\ res'.op = "acquire") =>
        /\ res'.arg[1] # NilClient
        /\ res'.arg[1] > res.arg[2]

C22_Original == [][C22_Original_Step]_vars

(* The pool after an invalid release and its replacement: the new client   *)
(* is idle behind an older one, which the next acquire returns             *)
C22_Witness ==
    /\ res.op = "releaseInvalid"
    /\ returnDbClient = <<>>
    /\ Len(getDbClient) = 2
    /\ getDbClient[2] = dbManager.created
    /\ getDbClient[2] > res.arg[2]
    /\ getDbClient[1] # NilClient
    /\ getDbClient[1] <= res.arg[2]

(* C23: in every reachable state no client is held by two callers, none is *)
(* both idle and checked out or handed back and checked out, and none is   *)
(* in the channels twice.                                                  *)
C23_Exclusive ==
    /\ \A c1, c2 \in Holders : callers[c1].dbClient = callers[c2].dbClient => c1 = c2
    /\ IdleClients \cap HeldClients = {}
    /\ (Range(returnDbClient) \ {NilClient}) \cap HeldClients = {}
    /\ LET q == getDbClient \o returnDbClient
       IN  \A i, j \in 1..Len(q) : (q[i] = q[j] /\ q[i] # NilClient) => i = j

(* Every client of the pool is checked out, each by a caller of its own,   *)
(* one of them a client made to replace another                            *)
C23_Witness ==
    /\ Cardinality(Holders) = kNumDbClients
    /\ Cardinality(HeldClients) = kNumDbClients
    /\ getDbClient = <<>>
    /\ \E c \in Holders : callers[c].dbClient > kNumDbClients

----------------------------------------------------------------------------
(* The authentication gate: the goroutine Auth, the two unbuffered         *)
(* channels authRequests and authResponses, and DoAuth in the goroutines   *)
(* of the callers.  A send on an unbuffered channel and its receive are    *)
(* one step of the two goroutines together.                                *)

(* The X-firebase-token headers sent *)
Tokens == {"", "bad", "tGhost", "t1", "t2", "t3", "t4"}

(* client.VerifyIDToken: the UID of the token, "" for an error *)
VerifyIDToken(token) ==
    CASE token = "t1" -> "u1"
      [] token = "t2" -> "u2"
      [] token = "t3" -> "u3"
      [] token = "t4" -> "u4"
      [] token = "tGhost" -> "ghost"
      [] OTHER -> ""

(* The accounts of the identity provider *)
FirebaseUsers ==
    [u \in {"u1", "u2", "u3", "u4"} |->
        [Disabled |-> u \in {"u3", "u4"}, EmailVerified |-> u \in {"u1", "u3"}]]

(* client.GetUser: <<userObj>>, <<>> for an error *)
GetFirebaseUser(uid) ==
    IF uid \in DOMAIN FirebaseUsers THEN <<FirebaseUsers[uid]>> ELSE <<>>

(* The response Auth computes for a request (lines 386-408) *)
AuthResponseFor(token) ==
    LET uid == VerifyIDToken(token)
        userObj == GetFirebaseUser(uid)
    IN  IF uid = "" \/ userObj = <<>>
        THEN [Success |-> FALSE, Error |-> ErrAuthFailed, UserInfo |-> ""]
        ELSE IF userObj[1].Disabled
        THEN [Success |-> FALSE, Error |-> ErrUserDisabled, UserInfo |-> uid]
        ELSE IF ~userObj[1].EmailVerified
        THEN [Success |-> FALSE, Error |-> ErrEmailNotValidated, UserInfo |-> uid]
        ELSE [Success |-> TRUE, Error |-> "nil", UserInfo |-> uid]

(* The error DoAuth returns with a response, whatever the flag *)
DoAuthReturn_Strict(response, requireEmailVerification) ==
    IF ~response.Success THEN response.Error ELSE "nil"

(* The error DoAuth returns with a response (lines 425-431) *)
DoAuthReturn(response, requireEmailVerification) ==
    IF ~response.Success
    THEN IF ~requireEmailVerification /\ response.Error = ErrEmailNotValidated
         THEN "nil"
         ELSE response.Error
    ELSE "nil"

(* A caller starts DoAuth on a request with this token *)
VerifyStart(c, token, requireEmailVerification) ==
    /\ callers[c].pc = "idle"
    /\ callers' = [callers EXCEPT ![c] =
                      [CallerStart EXCEPT !.pc = "auth", !.op = "verify",
                                          !.token = token,
                                          !.require = requireEmailVerification]]
    /\ UNCHANGED <<getDbClient, returnDbClient, dbManager, authServer, sent>>
    /\ UNCHANGED <<users, loans, now, ticks, res>>

(* DoAuth returns at once when the header is empty (lines 418-421) *)
DoAuthMissing(c) ==
    /\ callers[c].pc = "auth"
    /\ callers[c].token = ""
    /\ callers' = [callers EXCEPT ![c].pc = "authed",
                                  ![c].auth = NoResponse,
                                  ![c].err = ErrAuthTokenNotProvided,
                                  ![c].verified = "failed"]
    /\ UNCHANGED <<getDbClient, returnDbClient, dbManager, authServer, sent>>
    /\ UNCHANGED <<users, loans, now, ticks, res>>

(* Auth taking a request while the response to another is not handed over *)
AuthReceive_Eager(c) ==
    /\ callers[c].pc = "auth"
    /\ callers[c].token # ""
    /\ authServer.pc \in {"select", "respond"}
    /\ authServer' = [pc |-> "verify", request |-> <<callers[c].token>>,
                      response |-> <<>>]
    /\ callers' = [callers EXCEPT ![c].pc = "authWait"]
    /\ UNCHANGED <<getDbClient, returnDbClient, dbManager, sent>>
    /\ UNCHANGED <<users, loans, now, ticks, res>>

(* authRequests <- authReq (line 423) met by Auth's receive (line 385) *)
AuthReceive(c) ==
    /\ callers[c].pc = "auth"
    /\ callers[c].token # ""
    /\ authServer.pc = "select"
    /\ authServer' = [pc |-> "verify", request |-> <<callers[c].token>>,
                      response |-> <<>>]
    /\ callers' = [callers EXCEPT ![c].pc = "authWait"]
    /\ UNCHANGED <<getDbClient, returnDbClient, dbManager, sent>>
    /\ UNCHANGED <<users, loans, now, ticks, res>>

(* Auth verifies the token and loads the account (lines 386-408) *)
AuthVerify ==
    /\ authServer.pc = "verify"
    /\ authServer' = [authServer EXCEPT
                         !.pc = "respond",
                         !.response = <<AuthResponseFor(authServer.request[1])>>]
    /\ UNCHANGED <<getDbClient, returnDbClient, dbManager, callers, sent>>
    /\ UNCHANGED <<users, loans, now, ticks, res>>

(* Auth's response taken by a caller that is still sending its request *)
AuthRespond_Any(c) ==
    /\ authServer.pc = "respond"
    /\ callers[c].pc \in {"auth", "authWait"}
    /\ callers[c].token # ""
    /\ callers' = [callers EXCEPT
                      ![c].pc = "authed",
                      ![c].auth = authServer.response[1],
                      ![c].err = DoAuthReturn(authServer.response[1], callers[c].require),
                      ![c].verified =
                          IF DoAuthReturn(authServer.response[1], callers[c].require) = "nil"
                          THEN "ok" ELSE "failed"]
    /\ authServer' = AuthStart
    /\ UNCHANGED <<getDbClient, returnDbClient, dbManager, sent>>
    /\ UNCHANGED <<users, loans, now, ticks, res>>

(* authResponses <- response (line 409) met by the receive of the caller   *)
(* (line 424), which returns from DoAuth (lines 425-431)                   *)
AuthRespond(c) ==
    /\ authServer.pc = "respond"
    /\ callers[c].pc = "authWait"
    /\ callers' = [callers EXCEPT
                      ![c].pc = "authed",
                      ![c].auth = authServer.response[1],
                      ![c].err = DoAuthReturn(authServer.response[1], callers[c].require),
                      ![c].verified =
                          IF DoAuthReturn(authServer.response[1], callers[c].require) = "nil"
                          THEN "ok" ELSE "failed"]
    /\ authServer' = AuthStart
    /\ UNCHANGED <<getDbClient, returnDbClient, dbManager, sent>>
    /\ UNCHANGED <<users, loans, now, ticks, res>>

NextAuth ==
    \/ \E c \in Callers, t \in Tokens, r \in BOOLEAN : VerifyStart(c, t, r)
    \/ \E c \in Callers : DoAuthMissing(c)
    \/ \E c \in Callers : AuthReceive(c)
    \/ AuthVerify
    \/ \E c \in Callers : AuthRespond(c)

SpecAuth == Init /\ [][NextAuth]_vars

(* The callers whose request Auth has taken and that have no response yet *)
InFlight == {c \in Callers : callers[c].pc = "authWait"}

(* C25: a caller that has sent a token has, when DoAuth returns, the       *)
(* response computed from that token; while it waits, the request Auth     *)
(* works on is its own.                                                    *)
C25_OwnResponse ==
    \A c \in Callers :
        /\ (callers[c].pc = "authed" /\ callers[c].token # "") =>
               callers[c].auth = AuthResponseFor(callers[c].token)
        /\ callers[c].pc = "authWait" => authServer.request = <<callers[c].token>>

(* Two callers have their responses, one a success and the other a         *)
(* failure, while the request of a third is with Auth                      *)
C25_Witness ==
    \E c1, c2, c3 \in Callers :
        /\ callers[c1].pc = "authed" /\ callers[c1].auth.Success
        /\ callers[c2].pc = "authed" /\ callers[c2].auth.Error = ErrUserDisabled
        /\ callers[c3].pc = "authWait" /\ callers[c3].token = "bad"

(* C26: at most one caller is between the hand-over of its request and the *)
(* hand-over of its response, and Auth has a request exactly while one is. *)
C26_SingleFlight ==
    /\ Cardinality(InFlight) <= 1
    /\ authServer.pc = "select" <=> InFlight = {}

(* One verification is under way and two callers stand at the send *)
C26_Witness ==
    /\ authServer.pc = "respond"
    /\ Cardinality(InFlight) = 1
    /\ Cardinality({c \in Callers : callers[c].pc = "auth" /\ callers[c].token # ""}) = 2

(* The error verify is to fail with, read off the accounts *)
ExpectedAuthError(token, requireEmailVerified) ==
    IF token = "" THEN ErrAuthTokenNotProvided
    ELSE IF token \notin {"t1", "t2", "t3", "t4"} THEN ErrAuthFailed
    ELSE LET account == FirebaseUsers[VerifyIDToken(token)]
         IN  IF account.Disabled THEN ErrUserDisabled
             ELSE IF ~account.EmailVerified /\ requireEmailVerified
             THEN ErrEmailNotValidated
             ELSE "nil"

(* C27: verify fails with TokenMissing for an empty token, and then Auth   *)
(* is not contacted; with AuthFailed when the token does not verify or the *)
(* account cannot be loaded; with UserDisabled for a disabled account,     *)
(* whatever its email and the flag; with EmailNotVerified for an enabled   *)
(* account with unverified email when the flag is set; and without error   *)
(* otherwise, returning the identity.                                      *)
C27_Step ==
    \A c \in Callers :
        (callers[c].pc \in {"auth", "authWait"} /\ callers'[c].pc = "authed") =>
            /\ callers'[c].err =
                   ExpectedAuthError(callers[c].token, callers[c].require)
            /\ callers[c].token = "" => authServer' = authServer
            /\ callers'[c].err = "nil" =>
                   callers'[c].auth.UserInfo = VerifyIDToken(callers[c].token)

C27_Outcomes == [][C27_Step]_vars

(* Three calls have returned: an enabled account with unverified email     *)
(* passed without the flag, the same account refused with it, and a        *)
(* disabled account with unverified email refused as disabled              *)
C27_Witness ==
    \E c1, c2, c3 \in Callers :
        /\ callers[c1].pc = "authed" /\ callers[c1].token = "t2" /\ ~callers[c1].require
        /\ callers[c1].err = "nil" /\ callers[c1].auth.UserInfo = "u2"
        /\ callers[c2].pc = "authed" /\ callers[c2].token = "t2" /\ callers[c2].require
        /\ callers[c2].err = ErrEmailNotValidated
        /\ callers[c3].pc = "authed" /\ callers[c3].token = "t4" /\ ~callers[c3].require
        /\ callers[c3].err = ErrUserDisabled

----------------------------------------------------------------------------
(* The handlers as goroutines: DoAuth, the checks of the request body, the *)
(* client taken from the pool, the transaction, the client handed back,    *)
(* and the response; SelectLoanOffer then calls SendToBloom.               *)

(* The operations the router exposes (lines 1449-1458) *)
Operations ==
    {"register", "getProfile", "patchProfile", "requestLoan", "getActiveLoan",
     "selectOffer", "repay", "cancelActiveLoan", "listLoans", "healthCheck"}

(* The second argument of the handler's call of DoAuth *)
RequireOf(op) == op \notin {"getProfile", "register"}

(* The goroutines that serve a request, and the headers they come with:    *)
(* c1 serves any request, c2 at the same time a request of the signed-in   *)
(* borrower to select an offer, or a health probe; HealthCheck reads no    *)
(* header                                                                  *)
GateCallers == {"c1", "c2"}
GateTokens == {"", "bad", "t1"}
GateOps(c) == IF c = "c1" THEN Operations ELSE {"selectOffer", "healthCheck"}
GateTokensOf(c, op) ==
    IF op = "healthCheck" THEN {""} ELSE IF c = "c1" THEN GateTokens ELSE {"t1"}

GatePayload ==
    [QinBalance |-> 500, EmploymentInfo |-> <<[EmploymentIncome |-> <<>>]>>,
     ResidenceInfo |-> <<[ResidenceStatus |-> "rent"]>>]

EmptyPayload == [QinBalance |-> 500, EmploymentInfo |-> <<>>, ResidenceInfo |-> <<>>]

(* The request bodies sent to an operation; <<>> is no body, or for        *)
(* register a body without the required names                              *)
Bodies(op) ==
    CASE op = "register" -> {<<>>, <<GatePayload>>}
      [] op = "patchProfile" -> {<<EmptyPayload>>, <<GatePayload>>}
      [] op = "requestLoan" -> {<<0>>, <<1000>>}
      [] op = "selectOffer" -> {<<st, l>> : st \in {"", "u1-0-0"}, l \in Locations}
      [] OTHER -> {<<>>}

(* The error of the checks a handler makes on the body before it takes a   *)
(* client (lines 498, 730, 985, 1360)                                      *)
BodyError(op, input) ==
    CASE op = "register" ->
             IF input = <<>> THEN ErrBadJsonPopulation ELSE "nil"
      [] op = "patchProfile" ->
             IF input[1].EmploymentInfo = <<>> /\ input[1].ResidenceInfo = <<>>
             THEN ErrBadJsonPopulation ELSE "nil"
      [] op = "requestLoan" ->
             IF input[1] = 0 THEN ErrBadJsonPopulation ELSE "nil"
      [] op = "selectOffer" ->
             IF input[1] = "" /\ input[2] = "" THEN ErrBadJsonPopulation ELSE "nil"
      [] OTHER -> "nil"

(* The error a transaction returns when the datastore fails *)
ErrStore == "datastore error"

(* The transaction of the handler of op for uid on the entities stored:    *)
(* err is what RunInTransaction returns, user and records the entities     *)
(* after a commit, answer the handler's err when it writes the response,   *)
(* loan the id of the record activeLoan points to                          *)
HandlerTx(op, uid, input, rnd) ==
    LET user == users[uid]
        records == loans[uid]
        out(e, u, r, a) == [err |-> e, user |-> u, records |-> r, answer |-> a, loan |-> ""]
    IN  CASE op = "register" ->
                 LET tx == CreateUserTx(user, input[1])
                 IN  out(tx.err, tx.user, records, tx.err)
          [] op = "getProfile" ->
                 LET e == IF user = <<>> THEN ErrNoSuchEntity ELSE "nil"
                 IN  out(e, user, records, e)
          [] op = "patchProfile" ->
                 LET tx == PatchUserTx(user, input[1])
                 IN  out(tx.err, tx.user, records, tx.err)
          [] op = "requestLoan" ->
                 CHOOSE o \in {out(tx.err, user, tx.records, tx.err) :
                                 tx \in {LoanRequestTx(uid, user, records, input[1],
                                                       rnd, now)}} : TRUE
          [] op = "getActiveLoan" ->
                 LET tx == DefaultCheckTx(records, now)
                 IN  out(tx.err, user, IF tx.put THEN tx.records ELSE records,
                         IF tx.err # "nil" THEN tx.err
                         ELSE GetActiveLoanAnswer(tx.records))
          [] op = "listLoans" ->
                 LET tx == DefaultCheckTx(records, now)
                 IN  out(tx.err, user, IF tx.put THEN tx.records ELSE records, tx.err)
          [] op = "selectOffer" ->
                 LET tx == SelectLoanOfferTx(user, records, input[1], input[2], now)
                     a == ActiveLoanForLoanHistory(records)
                 IN  [err |-> tx.err, user |-> tx.user, records |-> tx.records,
                      answer |-> tx.err,
                      loan |-> IF a.err = "nil" /\ a.idx # 0
                               THEN records[a.idx].LoanId ELSE ""]
          [] op = "repay" ->
                 LET tx == RepayTx(user, records, now)
                 IN  out(tx.err, tx.user, tx.records,
                         IF tx.err = "nil" /\ ~tx.repaid THEN ErrLoanInDefault
                         ELSE tx.err)
          [] op = "cancelActiveLoan" ->
                 LET tx == DeleteActiveLoanTx(records)
                 IN  out(tx.err, user, tx.records, tx.err)

(* A request arrives and its handler starts; HealthCheck (lines 1330-1337) *)
(* calls no DoAuth                                                         *)
RequestStart(c, op, token, input) ==
    /\ Running
    /\ callers[c].pc = "idle"
    /\ callers' = [callers EXCEPT ![c] =
                      [CallerStart EXCEPT
                          !.pc = IF op = "healthCheck" THEN "acquire" ELSE "auth",
                          !.op = op, !.token = token, !.input = input,
                          !.require = RequireOf(op)]]
    /\ UNCHANGED <<getDbClient, returnDbClient, dbManager, authServer, sent>>
    /\ UNCHANGED <<users, loans, now, ticks, res>>

(* The handler after DoAuth going on whatever DoAuth returned *)
Proceed_IgnoresAuth(c) ==
    /\ Running
    /\ callers[c].pc = "authed"
    /\ callers[c].op # "verify"
    /\ LET e == BodyError(callers[c].op, callers[c].input)
       IN  callers' = [callers EXCEPT
                          ![c].pc = IF e # "nil" THEN "done" ELSE "acquire",
                          ![c].err = e,
                          ![c].reply = IF e # "nil" THEN "error" ELSE ""]
    /\ UNCHANGED <<getDbClient, returnDbClient, dbManager, authServer, sent>>
    /\ UNCHANGED <<users, loans, now, ticks, res>>

(* The handler after DoAuth: it answers with the error of DoAuth, or with  *)
(* that of its checks of the body, or goes on to take a client             *)
Proceed(c) ==
    /\ Running
    /\ callers[c].pc = "authed"
    /\ callers[c].op # "verify"
    /\ LET e == IF callers[c].err # "nil" THEN callers[c].err
                ELSE BodyError(callers[c].op, callers[c].input)
       IN  callers' = [callers EXCEPT
                          ![c].pc = IF e # "nil" THEN "done" ELSE "acquire",
                          ![c].err = e,
                          ![c].reply = IF e # "nil" THEN "error" ELSE ""]
    /\ UNCHANGED <<getDbClient, returnDbClient, dbManager, authServer, sent>>
    /\ UNCHANGED <<users, loans, now, ticks, res>>

(* dbClient := <-getDbClient *)
HandlerAcquire(c) ==
    /\ Running
    /\ callers[c].pc = "acquire"
    /\ getDbClient # <<>>
    /\ callers' = [callers EXCEPT
                      ![c].pc = IF callers[c].op = "healthCheck" THEN "release" ELSE "tx",
                      ![c].dbClient = Head(getDbClient),
                      ![c].got = Append(@, Head(getDbClient))]
    /\ getDbClient' = Tail(getDbClient)
    /\ UNCHANGED <<returnDbClient, dbManager, authServer, sent>>
    /\ UNCHANGED <<users, loans, now, ticks, res>>

(* dbClient.RunInTransaction: the puts are committed when the function     *)
(* returns nil                                                             *)
RunTx(c, storeFails, rnd) ==
    /\ Running
    /\ callers[c].pc = "tx"
    /\ \E uid \in {callers[c].auth.UserInfo},
          tx \in {HandlerTx(callers[c].op, callers[c].auth.UserInfo,
                            callers[c].input, rnd)} :
       LET commit == ~storeFails /\ tx.err = "nil"
       IN  /\ users' = IF commit THEN [users EXCEPT ![uid] = tx.user] ELSE users
           /\ loans' = IF commit THEN [loans EXCEPT ![uid] = tx.records] ELSE loans
           /\ callers' = [callers EXCEPT
                             ![c].pc = "release",
                             ![c].ran = TRUE,
                             ![c].loan = tx.loan,
                             ![c].err = IF storeFails THEN ErrStore ELSE tx.answer]
    /\ UNCHANGED <<getDbClient, returnDbClient, dbManager, authServer, sent>>
    /\ UNCHANGED <<now, ticks, res>>

(* The handler handing its client back only when the transaction returned  *)
(* nil                                                                     *)
HandlerRelease_OnSuccess(c) ==
    /\ Running
    /\ callers[c].pc = "release"
    /\ Len(returnDbClient) < kNumDbClients
    /\ returnDbClient' = IF callers[c].err = "nil"
                         THEN Append(returnDbClient, callers[c].dbClient)
                         ELSE returnDbClient
    /\ callers' = [callers EXCEPT
                      ![c].gave = IF callers[c].err = "nil"
                                  THEN Append(@, callers[c].dbClient) ELSE @,
                      ![c].pc = IF callers[c].err = "nil" /\ callers[c].op = "selectOffer"
                                THEN "disburse" ELSE "done",
                      ![c].reply = IF callers[c].err # "nil" THEN "error"
                                   ELSE IF callers[c].op = "selectOffer" THEN ""
                                   ELSE "200"]
    /\ UNCHANGED <<getDbClient, dbManager, authServer, sent>>
    /\ UNCHANGED <<users, loans, now, ticks, res>>

(* returnDbClient <- dbClient, and then the response: the error, or the    *)
(* result; SelectLoanOffer goes on to SendToBloom before it answers        *)
HandlerRelease(c) ==
    /\ Running
    /\ callers[c].pc = "release"
    /\ Len(returnDbClient) < kNumDbClients
    /\ returnDbClient' = Append(returnDbClient, callers[c].dbClient)
    /\ callers' = [callers EXCEPT
                      ![c].gave = Append(@, callers[c].dbClient),
                      ![c].pc = IF callers[c].err = "nil" /\ callers[c].op = "selectOffer"
                                THEN "disburse" ELSE "done",
                      ![c].reply = IF callers[c].err # "nil" THEN "error"
                                   ELSE IF callers[c].op = "selectOffer" THEN ""
                                   ELSE "200"]
    /\ UNCHANGED <<getDbClient, dbManager, authServer, sent>>
    /\ UNCHANGED <<users, loans, now, ticks, res>>

(* What a call of SendToBloom comes to: the payment is sent; an error is   *)
(* returned (lines 630-643); or the federation request fails, and          *)
(* GetBloomAddressAndMemo dereferences the nil response in                 *)
(* `defer r.Body.Close()` (line 591) before it looks at the error: the     *)
(* goroutine panics                                                        *)
BloomOutcomes == {"sent", "error", "panic"}

(* err = SendToBloom(activeLoan.Amount), the error printed, and the record *)
(* encoded as the response (lines 1095-1100)                               *)
Disburse(c, outcome) ==
    /\ Running
    /\ callers[c].pc = "disburse"
    /\ sent' = Append(sent, [caller |-> c, loan |-> callers[c].loan,
                             pickup |-> callers[c].input[2] # "",
                             outcome |-> outcome])
    /\ callers' = [callers EXCEPT
                      ![c].pc = "done",
                      ![c].reply = IF outcome = "panic" THEN "aborted" ELSE "200"]
    /\ UNCHANGED <<getDbClient, returnDbClient, dbManager, authServer>>
    /\ UNCHANGED <<users, loans, now, ticks, res>>

(* The entities stored when the server starts: nothing, or the profile and *)
(* an APPROVED record of a borrower who has or has not accepted the offer  *)
(* that requires collateral                                                *)
GateRecords(uid) ==
    {rec \in SelectRecords(uid) :
        /\ rec.Terms[1].QinRequired = 10
        /\ rec.Terms[2].QinRequired = 0
        /\ rec.AcceptedTerms # <<>> => rec.AcceptedTerms[1].TermId = uid \o "-0-0"}

GateUsers == {p \in SelectUsers : p.QinBalance = 10}

InitGate ==
    /\ \/ /\ users = [u \in Borrowers |-> <<>>]
          /\ loans = [u \in Borrowers |-> <<>>]
       \/ /\ users \in [Borrowers -> {<<p>> : p \in GateUsers}]
          /\ \E lr \in [Borrowers -> UNION {GateRecords(u) : u \in Borrowers}] :
                /\ \A u \in Borrowers : lr[u] \in GateRecords(u)
                /\ loans = [u \in Borrowers |-> <<lr[u]>>]
    /\ now = TicksPerDay
    /\ ticks = 0
    /\ res = Answer("none", "", "nil", <<>>)
    /\ ProcInit

NextGate ==
    \/ \E ok \in BOOLEAN : Prewarm(ok)
    \/ RecycleClient
    \/ \E c \in GateCallers : \E op \in GateOps(c) :
          \E t \in GateTokensOf(c, op), b \in Bodies(op) : RequestStart(c, op, t, b)
    \/ \E c \in Callers : DoAuthMissing(c)
    \/ \E c \in Callers : AuthReceive(c)
    \/ AuthVerify
    \/ \E c \in Callers : AuthRespond(c)
    \/ \E c \in Callers : Proceed(c)
    \/ \E c \in Callers : HandlerAcquire(c)
    \/ \E c \in Callers, f \in BOOLEAN, r \in RandDraws : RunTx(c, f, r)
    \/ \E c \in Callers : HandlerRelease(c)
    \/ \E c \in Callers, o \in BloomOutcomes : Disburse(c, o)

SpecGate == InitGate /\ [][NextGate]_vars

----------------------------------------------------------------------------
(* C24: every handler that takes a client from the pool hands that client  *)
(* back exactly once before it returns, whether its transaction returned   *)
(* nil or an error: a handler takes at most one client, holds it through   *)
(* its transaction, and has handed back what it took when it is past the   *)
(* send on returnDbClient.                                                 *)
C24_Released ==
    \A c \in Callers :
        /\ Len(callers[c].got) <= 1
        /\ callers[c].pc \in {"tx", "release"} =>
              /\ callers[c].got = <<callers[c].dbClient>>
              /\ callers[c].gave = <<>>
        /\ callers[c].pc \in {"disburse", "done"} => callers[c].gave = callers[c].got
        /\ callers[c].ran => Len(callers[c].got) = 1

(* A handler has returned after its transaction failed in the store, and   *)
(* another after a transaction that returned an error of the program; both *)
(* have handed back the client they took                                   *)
C24_Witness ==
    /\ callers["c1"].pc = "done"
    /\ callers["c1"].ran
    /\ callers["c1"].err \notin {"nil", ErrStore}
    /\ callers["c1"].gave = callers["c1"].got
    /\ callers["c1"].got # <<>>
    /\ callers["c2"].pc = "done"
    /\ callers["c2"].err = ErrStore
    /\ callers["c2"].gave = callers["c2"].got
    /\ callers["c2"].got # <<>>

(* A handler has returned with a successful response and has handed back   *)
(* the client it took                                                      *)
C24_SuccessWitness ==
    \E c \in Callers :
        /\ callers[c].pc = "done"
        /\ callers[c].ran
        /\ callers[c].reply = "200"
        /\ callers[c].gave = callers[c].got

----------------------------------------------------------------------------
(* The handler of c has taken a client or run its transaction only after   *)
(* DoAuth returned nil, and has done neither when DoAuth returned an error *)
Gated(c) ==
    /\ (callers[c].got # <<>> \/ callers[c].ran) => callers[c].verified = "ok"
    /\ callers[c].verified = "failed" =>
          /\ callers[c].got = <<>>
          /\ callers[c].gave = <<>>
          /\ ~callers[c].ran

(* C28 as stated: each of the ten operations, healthCheck among them,      *)
(* completes a successful verify before it takes a client from the pool or *)
(* opens a transaction, and does neither when its verify fails.            *)
C28_Original ==
    \A c \in Callers : callers[c].op \in Operations => Gated(c)

(* C28: each operation other than healthCheck completes a successful       *)
(* verify before it takes a client from the pool or opens a transaction,   *)
(* and does neither when its verify fails; healthCheck makes no verify and *)
(* opens no transaction.                                                   *)
C28_AuthGate ==
    \A c \in Callers :
        /\ callers[c].op \in Operations \ {"healthCheck"} => Gated(c)
        /\ callers[c].op = "healthCheck" =>
              /\ callers[c].verified = "no"
              /\ ~callers[c].ran

(* One handler has returned after its verify failed in Auth, another has   *)
(* run its transaction after a successful verify                           *)
C28_Witness ==
    /\ callers["c1"].pc = "done"
    /\ callers["c1"].token = "bad"
    /\ callers["c1"].verified = "failed"
    /\ callers["c1"].reply = "error"
    /\ callers["c2"].op = "selectOffer"
    /\ callers["c2"].verified = "ok"
    /\ callers["c2"].ran

(* HealthCheck holds a client of the pool and has made no verify *)
C28_HealthWitness ==
    \E c \in Callers :
        /\ callers[c].op = "healthCheck"
        /\ callers[c].got # <<>>
        /\ callers[c].verified = "no"

----------------------------------------------------------------------------
(* C29: SendToBloom is called only by a SelectLoanOffer whose committed    *)
(* transaction set the record SENT: never for a selection of terms alone,  *)
(* at most once for a loan record, and only when the transaction has       *)
(* committed and the client is handed back.                                *)
C29_DisburseOnlyForPickup ==
    /\ \A i \in DOMAIN sent : sent[i].pickup
    /\ \A i, j \in DOMAIN sent : sent[i].loan = sent[j].loan => i = j
    /\ \A c \in Callers :
          callers[c].pc = "disburse" =>
              /\ callers[c].ran
              /\ callers[c].err = "nil"
              /\ callers[c].got # <<>>
              /\ callers[c].gave = callers[c].got

(* The part of C29 on the order of the steps: SendToBloom is called only   *)
(* with the transaction committed and the client handed back               *)
C29_AfterRelease ==
    \A c \in Callers :
        (callers[c].pc = "disburse" \/ \E i \in DOMAIN sent : sent[i].caller = c) =>
            /\ callers[c].op = "selectOffer"
            /\ callers[c].ran
            /\ callers[c].err = "nil"
            /\ callers[c].got # <<>>
            /\ callers[c].gave = callers[c].got

(* SendToBloom was called twice for one loan record: after the selection   *)
(* of terms, which left the record APPROVED, and after the pickup          *)
C29_Witness ==
    /\ Len(sent) = 2
    /\ sent[1].loan = sent[2].loan
    /\ ~sent[1].pickup
    /\ sent[1].outcome = "sent"
    /\ sent[2].pickup
    /\ sent[2].outcome = "sent"
    /\ \E u \in Borrowers : \E k \in DOMAIN loans[u] :
          loans[u][k].LoanId = sent[1].loan /\ loans[u][k].State = "SENT"

(* SendToBloom was called for a record that is still APPROVED *)
C29_ApprovedWitness ==
    /\ Len(sent) = 1
    /\ ~sent[1].pickup
    /\ \E u \in Borrowers : \E k \in DOMAIN loans[u] :
          loans[u][k].LoanId = sent[1].loan /\ loans[u][k].State = "APPROVED"

----------------------------------------------------------------------------
(* The record of uid that SelectLoanOffer picked up is stored SENT with    *)
(* its due date, and the collateral is taken from the balance              *)
PickedUp(us, ls, id) ==
    \E u \in Borrowers : \E k \in DOMAIN ls[u] :
        /\ ls[u][k].LoanId = id
        /\ ls[u][k].State = "SENT"
        /\ ls[u][k].DueDate # 0
        /\ ls[u][k].Location # ""
        /\ us[u][1].QinBalance = 10 - ls[u][k].AcceptedTerms[1].QinRequired

(* c is at the call of SendToBloom after a committed pickup, and the call  *)
(* comes to outcome o in this step                                         *)
DisburseStep(c, o) ==
    /\ callers[c].pc = "disburse"
    /\ callers[c].input[2] # ""
    /\ callers'[c].pc = "done"
    /\ sent' = Append(sent, [caller |-> c, loan |-> callers[c].loan,
                             pickup |-> TRUE, outcome |-> o])

C30_Step ==
    \A c \in Callers, o \in BloomOutcomes \ {"sent"} :
        DisburseStep(c, o) =>
            /\ callers'[c].reply = "200"
            /\ users' = users
            /\ loans' = loans

(* C30: when SendToBloom fails after a committed pickup, SelectLoanOffer   *)
(* still answers with the loan, and the entities stored (record SENT, due  *)
(* date set, balance debited) are those a successful call would leave: the *)
(* call changes none of them.                                              *)
C30_FailureSwallowed == [][C30_Step]_vars

C30_ErrorStep ==
    \A c \in Callers :
        DisburseStep(c, "error") =>
            /\ callers'[c].reply = "200"
            /\ users' = users
            /\ loans' = loans

(* The part of C30 on an error SendToBloom returns: the handler prints it  *)
(* and answers with the loan                                               *)
C30_ErrorSwallowed == [][C30_ErrorStep]_vars

C30_StoreStep ==
    \A c \in Callers, o \in BloomOutcomes :
        DisburseStep(c, o) =>
            /\ users' = users
            /\ loans' = loans

(* The part of C30 on the entities stored: whatever the call comes to, it  *)
(* leaves the entities as the transaction and the other handlers stored    *)
(* them                                                                    *)
C30_NoRollback == [][C30_StoreStep]_vars

(* The federation request failed after a committed pickup: the handler     *)
(* panicked in GetBloomAddressAndMemo and its caller has no response,      *)
(* while the record is stored SENT                                         *)
C30_Witness ==
    \E c \in Callers :
        /\ callers[c].pc = "done"
        /\ callers[c].reply = "aborted"
        /\ callers[c].input[2] # ""
        /\ \E i \in DOMAIN sent :
              /\ sent[i].caller = c
              /\ sent[i].pickup
              /\ sent[i].outcome = "panic"
        /\ PickedUp(users, loans, callers[c].loan)

(* SendToBloom returned an error after a committed pickup and the caller   *)
(* has the loan as its response                                            *)
C30_ErrorWitness ==
    \E c \in Callers :
        /\ callers[c].pc = "done"
        /\ callers[c].reply = "200"
        /\ \E i \in DOMAIN sent :
              /\ sent[i].caller = c
              /\ sent[i].pickup
              /\ sent[i].outcome = "error"
        /\ PickedUp(users, loans, callers[c].loan)

----------------------------------------------------------------------------
(* Requests of one borrower served at the same time: every goroutine       *)
(* serves a pickup or a repayment of the signed-in borrower, whose loan is *)
(* APPROVED with the offer that requires collateral accepted.  The         *)
(* datastore runs the transactions of one key one after the other, or      *)
(* fails one of them.                                                      *)

SettleOps == {"selectOffer", "repay"}

SettleBodies(op) == IF op = "selectOffer" THEN {<<"", "loc">>} ELSE {<<>>}

SettleRecords(uid) == {rec \in GateRecords(uid) : rec.AcceptedTerms # <<>>}

InitSettle ==
    /\ users \in [Borrowers -> {<<p>> : p \in GateUsers}]
    /\ \E lr \in [Borrowers -> UNION {SettleRecords(u) : u \in Borrowers}] :
          /\ \A u \in Borrowers : lr[u] \in SettleRecords(u)
          /\ loans = [u \in Borrowers |-> <<lr[u]>>]
    /\ now = TicksPerDay
    /\ ticks = 0
    /\ res = Answer("none", "", "nil", <<>>)
    /\ ProcInit

NextSettle ==
    \/ \E ok \in BOOLEAN : Prewarm(ok)
    \/ RecycleClient
    \/ \E c \in Callers, op \in SettleOps :
          \E b \in SettleBodies(op) : RequestStart(c, op, "t1", b)
    \/ \E c \in Callers : AuthReceive(c)
    \/ AuthVerify
    \/ \E c \in Callers : AuthRespond(c)
    \/ \E c \in Callers : Proceed(c)
    \/ \E c \in Callers : HandlerAcquire(c)
    \/ \E c \in Callers, f \in BOOLEAN, r \in RandDraws : RunTx(c, f, r)
    \/ \E c \in Callers : HandlerRelease(c)
    \/ \E c \in Callers, o \in BloomOutcomes : Disburse(c, o)

SpecSettle == InitSettle /\ [][NextSettle]_vars

(* The goroutines whose transaction of op the datastore ran, and of those  *)
(* the ones whose transaction took effect and the ones that were refused   *)
Executed(op) ==
    {c \in Callers : callers[c].op = op /\ callers[c].ran /\ callers[c].err # ErrStore}

Settled(op) == {c \in Executed(op) : callers[c].err = "nil"}

Refused(op) == Executed(op) \ Settled(op)

(* The stored loan of the borrower and the offer accepted for it *)
SettleLoan(uid) == loans[uid][1]

C31_State ==
    \A u \in Borrowers :
        LET rec == SettleLoan(u)
            terms == rec.AcceptedTerms[1]
            picked == Cardinality(Settled("selectOffer"))
            repaid == Cardinality(Settled("repay"))
        IN  /\ picked = IF rec.State \in {"SENT", "REPAID"} THEN 1 ELSE 0
            /\ repaid = IF rec.State = "REPAID" THEN 1 ELSE 0
            /\ Len(rec.Repayments) = repaid
            /\ users[u][1].QinBalance =
                   10 - picked * terms.QinRequired
                      + repaid * (terms.QinRequired + terms.QinReward)
            /\ Executed("selectOffer") # {} => picked = 1
            /\ (\E c \in Refused("repay") : callers[c].err # ErrLoanInWrongState)
                  => repaid = 1
            /\ \A c \in Refused("selectOffer") :
                  callers[c].err \in {ErrLoanInWrongState, ErrNoActiveLoan}
            /\ \A c \in Refused("repay") :
                  callers[c].err \in {ErrLoanInWrongState, ErrNoActiveLoan}

C31_Step ==
    \A c \in Callers :
        (callers[c].pc = "tx" /\ callers'[c].pc = "release" /\ callers'[c].err # "nil")
            => StoreUnchanged

(* C31: when several pickups and several repayments of one borrower's loan *)
(* are served at the same time, each transaction run by the datastore on   *)
(* its own, exactly one pickup and exactly one repayment take effect: the  *)
(* collateral is debited once, collateral and reward are credited once,    *)
(* one Repayment is recorded, and every other request is refused and       *)
(* changes nothing that is stored.                                         *)
C31_ExactlyOnce == []C31_State /\ [][C31_Step]_vars

(* Two repayments of the loan picked up were served: one settled it, the   *)
(* other was refused after it, and the balance holds collateral and reward *)
(* once                                                                    *)
C31_Witness ==
    /\ callers["c1"].op = "selectOffer" /\ callers["c1"].pc = "done"
    /\ callers["c2"].op = "repay" /\ callers["c3"].op = "repay"
    /\ Cardinality(Settled("repay")) = 1
    /\ Cardinality(Refused("repay")) = 1
    /\ \A c \in Refused("repay") : callers[c].err = ErrNoActiveLoan
    /\ \A u \in Borrowers :
          /\ SettleLoan(u).State = "REPAID"
          /\ Len(SettleLoan(u).Repayments) = 1
          /\ users[u][1].QinBalance = 10 + SettleLoan(u).AcceptedTerms[1].QinReward

(* Two pickups were served: one set the loan SENT, the other was refused *)
C31_PickupWitness ==
    /\ Cardinality(Settled("selectOffer")) = 1
    /\ Cardinality(Refused("selectOffer")) = 1
    /\ \A u \in Borrowers :
          /\ SettleLoan(u).State = "SENT"
          /\ users[u][1].QinBalance = 0

----------------------------------------------------------------------------
(* The balance of the stored profile of uid, before and after the step *)
Balance(uid) == users[uid][1].QinBalance
BalanceAfter(uid) == users'[uid][1].QinBalance

C32_Step ==
    \A u \in Borrowers :
        /\ (users[u] = <<>> /\ users'[u] # <<>>) =>
              /\ Served("register", u)
              /\ res'.err = "nil"
              /\ BalanceAfter(u) = 0
        /\ users[u] # <<>> =>
              /\ users'[u] # <<>>
              /\ BalanceAfter(u) < Balance(u) =>
                    /\ Served("selectOffer", u)
                    /\ res'.err = "nil"
                    /\ res'.arg[2]
              /\ BalanceAfter(u) > Balance(u) =>
                    /\ Served("repay", u)
                    /\ res'.err = "nil"
              /\ (\/ \E op \in {"register", "patchProfile", "requestLoan", "getActiveLoan",
                                "cancelActiveLoan", "listLoans"} : Served(op, u)
                  \/ Served("selectOffer", u) /\ ~res'.arg[2]
                  \/ Served("repay", u) /\ res'.err # "nil"
                  \/ ticks' # ticks)
                    => BalanceAfter(u) = Balance(u)

(* C32: the balance of a profile is 0 when the profile is created,         *)
(* whatever the payload says, and afterwards it goes down only in a        *)
(* successful pickup selection and up only in a successful repay; register *)
(* on an existing profile, patchProfile, requestLoan, a selection of terms *)
(* alone, cancelActiveLoan, getActiveLoan, listLoans and the lazy default  *)
(* leave it as it is, and a profile is never deleted.                      *)
C32_BalanceFrame == [][C32_Step]_vars

(* A profile whose balance holds a reward has just been patched: the       *)
(* payload's balance of 500 was taken neither at registration nor now      *)
C32_Witness ==
    /\ res.op = "patchProfile"
    /\ res.err = "nil"
    /\ \E u \in Borrowers :
          /\ res.uid = u
          /\ users[u] # <<>>
          /\ Balance(u) > 0
          /\ Balance(u) # 500

(* A profile has just been created with balance 0 *)
C32_CreatedWitness ==
    /\ res.op = "register"
    /\ res.err = "nil"
    /\ \E u \in Borrowers : res.uid = u /\ Balance(u) = 0

----------------------------------------------------------------------------
C33_State ==
    \A u \in Borrowers : \A i \in ActiveIdx(u) : i = Len(loans[u])

C33_Step ==
    \A u \in Borrowers :
        /\ Len(loans'[u]) \in {Len(loans[u]), Len(loans[u]) + 1}
        /\ \A i \in 1..Len(loans[u]) : loans'[u][i].LoanId = loans[u][i].LoanId
        /\ Len(loans'[u]) = Len(loans[u]) + 1 <=>
              (Served("requestLoan", u) /\ res'.err = "nil")

(* C33: no operation takes a record out of a history, moves a record or    *)
(* changes a record's id; a history grows by one record in a successful    *)
(* requestLoan and in no other step; and an active record is always the    *)
(* last record of its history.                                             *)
C33_AppendOnly == []C33_State /\ [][C33_Step]_vars

(* A second loan was just granted: the history holds a finished record and *)
(* after it the active one, each with the id it was created with           *)
C33_Witness ==
    /\ res.op = "requestLoan"
    /\ res.err = "nil"
    /\ \E u \in Borrowers :
          /\ res.uid = u
          /\ Len(loans[u]) = 2
          /\ loans[u][1].State \in TerminalStates
          /\ loans[u][2].State \in ActiveStates
          /\ loans[u][1].LoanId = u \o "-0"
          /\ loans[u][2].LoanId = u \o "-1"

----------------------------------------------------------------------------
(* The states of a loan that was picked up *)
PickedUpStates == {"SENT", "REPAID", "DEFAULTED"}

RecordWellFormed(rec) ==
    /\ rec.DueDate # 0 <=> rec.State \in PickedUpStates
    /\ rec.State \in PickedUpStates =>
          /\ rec.AcceptedTerms # <<>>
          /\ rec.Location # ""
    /\ rec.AcceptedTerms # <<>> =>
          \E k \in DOMAIN rec.Terms : rec.Terms[k] = rec.AcceptedTerms[1]
    /\ rec.Repayments # <<>> <=> rec.State = "REPAID"

(* C34: in every reachable state every stored record has its due date set *)
(* exactly when it is SENT, REPAID or DEFAULTED; such a record has         *)
(* accepted terms and a pickup location; accepted terms are one of the     *)
(* record's own offers; a record has a Repayment exactly when it is        *)
(* REPAID; and no request is answered "Due date not set for SENT loan".    *)
C34_WellFormed ==
    /\ \A u \in Borrowers : \A i \in DOMAIN loans[u] : RecordWellFormed(loans[u][i])
    /\ res.err # ErrDueDateNotSet

(* A history with a defaulted loan, which keeps its due date and has no    *)
(* repayment, and a new loan with terms accepted and no due date yet       *)
C34_Witness ==
    \E u \in Borrowers :
        /\ Len(loans[u]) = 2
        /\ loans[u][1].State = "DEFAULTED"
        /\ loans[u][1].DueDate # 0
        /\ loans[u][1].Repayments = <<>>
        /\ loans[u][2].State = "APPROVED"
        /\ loans[u][2].AcceptedTerms # <<>>
        /\ loans[u][2].DueDate = 0

(* A history with a repaid loan and a loan picked up after it *)
C34_SentWitness ==
    \E u \in Borrowers :
        /\ Len(loans[u]) = 2
        /\ loans[u][1].State = "REPAID"
        /\ Len(loans[u][1].Repayments) = 1
        /\ loans[u][2].State = "SENT"
        /\ loans[u][2].DueDate # 0
        /\ loans[u][2].Location # ""

----------------------------------------------------------------------------
(* Calls of processBorrowerRequest on the registry: a first call, and then *)
(* a second call for the same application and borrower statistics, with    *)
(* whatever rand.Float64() returns then; the clock may move in between.    *)
(* res.arg records the call, its response slots, and in prev the draw and  *)
(* the response slots of the call before it.                               *)

Aggregate(amount, info, rnd) ==
    /\ info.successful_loans <= info.no_loans
    /\ \/ res.op = "none"
       \/ /\ res.op = "processBorrowerRequest"
          /\ res.arg.prev = <<>>
          /\ res.arg.amount = amount
          /\ res.arg.info = info
    /\ \E out \in {processBorrowerRequest(eraDriver,
                       [borrower_id |-> "u1", principal_amount |-> amount,
                        stated_monthly_income |-> 0], info, rnd)} :
          res' = Answer("processBorrowerRequest", "", "nil",
                        [amount |-> amount, info |-> info, rnd |-> rnd, slots |-> out,
                         prev |-> IF res.op = "none" THEN <<>>
                                  ELSE <<[rnd |-> res.arg.rnd, slots |-> res.arg.slots]>>])
    /\ UNCHANGED <<users, loans, now, ticks, procVars>>

NextAggregate ==
    \/ \E a \in AssessAmounts, info \in AssessInfos, r \in RequestDraws :
          Aggregate(a, info, r)
    \/ \E d \in TickSteps : Tick(d)

SpecAggregate == Init /\ [][NextAggregate]_vars

(* The state follows a second call for the same application and statistics *)
Repeated == res.op = "processBorrowerRequest" /\ res.arg.prev # <<>>

----------------------------------------------------------------------------
(* What the records from index i on add to the balance: the reward of a    *)
(* REPAID record, less the collateral of a DEFAULTED or SENT one           *)
RECURSIVE NetQin(_, _)
NetQin(records, i) ==
    IF i > Len(records) THEN 0
    ELSE (CASE records[i].State = "REPAID" -> records[i].AcceptedTerms[1].QinReward
            [] records[i].State \in {"DEFAULTED", "SENT"} ->
                   0 - records[i].AcceptedTerms[1].QinRequired
            [] OTHER -> 0)
         + NetQin(records, i + 1)

(* C36: in every reachable state the balance of a borrower is the sum of   *)
(* the rewards of the REPAID records, less the collateral of the accepted  *)
(* terms of the DEFAULTED records and of the SENT record; a borrower       *)
(* without a profile has no history.                                       *)
C36_Conservation ==
    \A u \in Borrowers :
        IF users[u] = <<>> THEN loans[u] = <<>>
        ELSE Balance(u) = NetQin(loans[u], 1)

(* A first loan repaid and a second one, taken with collateral, defaulted: *)
(* the balance is the reward of the first less the collateral of the       *)
(* second                                                                  *)
C36_Witness ==
    \E u \in Borrowers :
        /\ Len(loans[u]) = 2
        /\ loans[u][1].State = "REPAID"
        /\ loans[u][1].AcceptedTerms[1].QinReward > 0
        /\ loans[u][2].State = "DEFAULTED"
        /\ loans[u][2].AcceptedTerms[1].QinRequired > 0
        /\ Balance(u) = loans[u][1].AcceptedTerms[1].QinReward
                          - loans[u][2].AcceptedTerms[1].QinRequired

(* A second loan is out with its collateral held *)
C36_SentWitness ==
    \E u \in Borrowers :
        /\ Len(loans[u]) = 2
        /\ loans[u][1].State = "REPAID"
        /\ loans[u][2].State = "SENT"
        /\ loans[u][2].AcceptedTerms[1].QinRequired > 0
        /\ Balance(u) = loans[u][1].AcceptedTerms[1].QinReward
                          - loans[u][2].AcceptedTerms[1].QinRequired

----------------------------------------------------------------------------
(* The step persists the default of uid's overdue loan and nothing else *)
OnlyDefault(uid) ==
    /\ users' = users
    /\ \E i \in OverdueIdx(uid) :
          loans' = [loans EXCEPT ![uid][i].State = "DEFAULTED"]

C37_Step ==
    (res'.err # "nil" /\ ticks' = ticks) =>
        \/ StoreUnchanged
        \/ /\ res'.op = "repay"
           /\ res'.err = ErrLoanInDefault
           /\ OnlyDefault(res'.uid)
        \/ /\ res'.op = "getActiveLoan"
           /\ res'.err = ErrNoActiveLoan
           /\ OnlyDefault(res'.uid)

(* C37: a request answered with an error leaves the profile and the        *)
(* history as they were, but for a repay answered LoanInDefault and a      *)
(* getActiveLoan answered NoActiveLoan, which persist the default of the   *)
(* overdue loan and nothing else; so a selectOffer with terms and pickup   *)
(* that is refused does not persist the terms.                             *)
C37_ErrorAtomicity == [][C37_Step]_vars

(* A selectOffer with a term id and a pickup location was refused, and the *)
(* loan is stored APPROVED without accepted terms                          *)
C37_Witness ==
    /\ res.op = "selectOffer"
    /\ res.arg = <<TRUE, TRUE>>
    /\ res.err \notin {"nil", ErrUserNotRegistered, ErrNoActiveLoan, ErrLoanInWrongState}
    /\ \E u \in Borrowers : \E i \in ActiveIdx(u) :
          /\ res.uid = u
          /\ loans[u][i].State = "APPROVED"
          /\ loans[u][i].AcceptedTerms = <<>>
          /\ loans[u][i].DueDate = 0

(* A repay was answered LoanInDefault: the loan is stored DEFAULTED and    *)
(* the balance is still short of its collateral                            *)
C37_DefaultWitness ==
    /\ res.op = "repay"
    /\ res.err = ErrLoanInDefault
    /\ \E u \in Borrowers :
          /\ res.uid = u
          /\ loans[u][Len(loans[u])].State = "DEFAULTED"
          /\ Balance(u) = NetQin(loans[u], 1)

----------------------------------------------------------------------------
(* The server under fair scheduling.  Every request is served by its own   *)
(* goroutine, which ends when the handler returns; the slot of a finished  *)
(* request is taken by the next one, so that requests keep arriving while  *)
(* others wait.  External calls return: datastore.NewClient gives the      *)
(* manager its clients, and a transaction, a verification and the call to  *)
(* Bloom end with a result or an error.                                    *)

(* The requests of each goroutine: one picks the loan up, with or without  *)
(* a token that verifies, one lists the loans, one asks for the health     *)
(* check                                                                   *)
LiveOps(c) ==
    IF c = "c1" THEN {"selectOffer"} ELSE IF c = "c2" THEN {"listLoans"}
    ELSE {"healthCheck"}
LiveTokens(c, op) ==
    IF op = "healthCheck" THEN {""} ELSE IF c = "c1" THEN GateTokens ELSE {"t1"}

(* The goroutine of a request ends when its handler has returned or        *)
(* panicked                                                                *)
Finish(c) ==
    /\ callers[c].pc = "done"
    /\ callers' = [callers EXCEPT ![c] = CallerStart]
    /\ UNCHANGED <<getDbClient, returnDbClient, dbManager, authServer, sent>>
    /\ UNCHANGED <<users, loans, now, ticks, res>>

NextLive ==
    \/ Prewarm(TRUE)
    \/ RecycleClient
    \/ \E c \in Callers : \E op \in LiveOps(c) :
          \E t \in LiveTokens(c, op), b \in SettleBodies(op) : RequestStart(c, op, t, b)
    \/ \E c \in Callers : DoAuthMissing(c)
    \/ \E c \in Callers : AuthReceive(c)
    \/ AuthVerify
    \/ \E c \in Callers : AuthRespond(c)
    \/ \E c \in Callers : Proceed(c)
    \/ \E c \in Callers : HandlerAcquire(c)
    \/ \E c \in Callers, f \in BOOLEAN, r \in RandDraws : RunTx(c, f, r)
    \/ \E c \in Callers : HandlerRelease(c)
    \/ \E c \in Callers, o \in BloomOutcomes : Disburse(c, o)
    \/ \E c \in Callers : Finish(c)

(* The steps a goroutine takes on its own: those of the manager, those of  *)
(* Auth between its receive and its send, those of a handler that wait for *)
(* no channel                                                              *)
ManagerStep == Prewarm(TRUE) \/ RecycleClient
AuthStep == AuthVerify \/ \E c \in Callers : AuthRespond(c)
HandlerStep(c) ==
    \/ DoAuthMissing(c)
    \/ Proceed(c)
    \/ \E f \in BOOLEAN, r \in RandDraws : RunTx(c, f, r)
    \/ HandlerRelease(c)
    \/ \E o \in BloomOutcomes : Disburse(c, o)

(* The Go scheduler runs every goroutine that can run (weak fairness of    *)
(* the steps of the manager, of Auth and of each handler).  A goroutine    *)
(* blocked on a channel is queued first-in first-out, so a handler waiting *)
(* to send on authRequests or to receive from getDbClient is not passed    *)
(* over for ever by later ones (strong fairness of the two rendezvous).    *)
FairLive ==
    /\ WF_vars(ManagerStep)
    /\ WF_vars(AuthStep)
    /\ \A c \in Callers :
          /\ WF_vars(HandlerStep(c))
          /\ SF_vars(AuthReceive(c))
          /\ SF_vars(HandlerAcquire(c))

SpecLive == InitSettle /\ [][NextLive]_vars /\ FairLive

(* C38: no deadlock and no starvation.  Under the fair scheduling of       *)
(* ManageDbClients, Auth and the handlers, a handler blocked on            *)
(* getDbClient gets a client, a handler blocked in DoAuth gets its         *)
(* response, and every request that started ends; no handler is in DoAuth  *)
(* while it holds a client of the pool, and getDbClient has room whenever  *)
(* the manager sends a client to it.                                       *)
Holding(c) == Len(callers[c].got) > Len(callers[c].gave)

C38_NoAuthWhileHolding ==
    \A c \in Callers : callers[c].pc \in {"auth", "authWait", "authed"} => ~Holding(c)

C38_ArbiterNeverBlocks ==
    /\ dbManager.pc = "prewarm" => Len(getDbClient) < kNumDbClients
    /\ (dbManager.pc = "serve" /\ returnDbClient # <<>>) =>
           Len(getDbClient) < kNumDbClients

(* A handler leaves the receive from getDbClient only with a client, and   *)
(* DoAuth only with the response of Auth; with that, a blocked call that   *)
(* goes on has been served                                                 *)
C38_Served ==
    \A c \in Callers :
       /\ (callers[c].pc = "acquire" /\ callers'[c].pc # "acquire") =>
              /\ Len(callers'[c].got) = Len(callers'[c].gave) + 1
              /\ callers'[c].dbClient = Head(getDbClient)
       /\ (callers[c].pc = "authWait" /\ callers'[c].pc # "authWait") =>
              /\ callers'[c].pc = "authed"
              /\ authServer.response # <<>>
              /\ callers'[c].auth = authServer.response[1]

C38_NoStarvation ==
    /\ [](C38_NoAuthWhileHolding /\ C38_ArbiterNeverBlocks)
    /\ [][C38_Served]_vars
    /\ \A c \in Callers : (callers[c].pc # "idle") ~> (callers[c].pc = "done")

(* C38 witness: all the clients of the pool are held by handlers while     *)
(* another handler is blocked on getDbClient                               *)
C38_Witness ==
    /\ getDbClient = <<>> /\ returnDbClient = <<>>
    /\ dbManager.pc = "serve"
    /\ \E c \in Callers : callers[c].pc = "acquire"
    /\ Cardinality({c \in Callers : Holding(c)}) = kNumDbClients

(* C38 witness: a handler is blocked sending on authRequests while Auth    *)
(* serves another handler                                                  *)
C38_AuthWitness ==
    \E c, d \in Callers :
       /\ c # d
       /\ callers[c].pc = "auth" /\ callers[c].token # ""
       /\ callers[d].pc = "authWait"
       /\ authServer.pc # "select"

----------------------------------------------------------------------------
(* C39 for a balance that is an exact number of hundredths: when a         *)
(* requestLoan succeeds, the qinRequired of every term of the created      *)
(* record, as rounded to the hundredth, is at most the balance the         *)
(* borrower had when applying, and a selectOffer of any of these terms,    *)
(* with or without a pickup location, made while the balance is what it    *)
(* was, is not refused for lack of collateral.                             *)
C39_Step ==
    \A u \in Borrowers :
        (Served("requestLoan", u) /\ res'.err = "nil") =>
            \A k \in 1..Len(Created(u).Terms) :
                /\ Created(u).Terms[k].QinRequired <= users[u][1].QinBalance
                /\ users'[u] = users[u]
                /\ \A loc \in Locations :
                      SelectLoanOfferTx(users'[u], loans'[u],
                                        Created(u).Terms[k].TermId, loc, now').err
                          # ErrNotEnoughQin

C39_AffordableExact == [][C39_Step]_vars

(* A borrower past the grace period was offered a term whose collateral,   *)
(* rounded up to the hundredth, is the whole balance, while another        *)
(* assessor made no offer                                                  *)
C39_ExactWitness ==
    \E u \in Borrowers :
       /\ res.op = "requestLoan" /\ res.uid = u /\ res.err = "nil"
       /\ loans[u] # <<>> /\ users[u] # <<>>
       /\ users[u][1].QinBalance = 13
       /\ LET terms == loans[u][Len(loans[u])].Terms
          IN  /\ Len(terms) < eraDriver._num_eras
              /\ \E k \in 1..Len(terms) : terms[k].QinRequired = 13

----------------------------------------------------------------------------
(* The balance as the float64 it is.  User.QinBalance is a float64, the    *)
(* terms carry Round(x * 100) / 100, and the pickup subtracts the one from *)
(* the other (line 1071): the difference of two such values is not always  *)
(* the float64 nearest to the difference of the hundredths.  A balance is  *)
(* followed as its number of hundredths h (QinBalance) and the side on     *)
(* which it lies of the float64 nearest to h / 100 (Ulp: -1 below, 0 on    *)
(* it, 1 above), through one subtraction from a balance of DriftBalances.  *)

DriftBalances == {36}                  \* User.QinBalance, in hundredths
DriftAmounts == {1000}                 \* LoanRequest.LoanAmount
DriftDraws == {<<0, 1>>, <<4, 5>>}     \* values of rand.Float64()

(* The pairs <<h, q>> for which the float64 difference of the float64      *)
(* nearest to h / 100 and to q / 100 is below, or above, the float64       *)
(* nearest to (h - q) / 100 (IEEE 754 binary64, round to nearest even);    *)
(* 0.36 - 0.23, for one, is 0.12999999999999998                            *)
SubBelow ==
    {<<36, q>> : q \in {2, 3, 8, 13, 14, 16, 17, 19, 20, 22, 23, 25, 26, 27, 28,
                        31, 32, 33, 34}}
SubAbove == {<<36, 35>>}

(* user.QinBalance -= q (line 1071) on a balance that is the float64       *)
(* nearest to its hundredths                                               *)
F64Sub(user, q) ==
    IF q = 0 THEN user
    ELSE [user EXCEPT
             !.QinBalance = @ - q,
             !.Ulp = IF <<user.QinBalance, q>> \in SubBelow THEN -1
                     ELSE IF <<user.QinBalance, q>> \in SubAbove THEN 1 ELSE 0]

(* The subtractions the tables cover *)
F64SubCovered(user, q) ==
    q = 0 \/ (user.Ulp = 0 /\ user.QinBalance \in DriftBalances)

(* terms.QinRequired > user.QinBalance (line 1042) and                     *)
(* user.QinBalance < AcceptedTerms.QinRequired (line 1067), q being the    *)
(* float64 nearest to its hundredths                                       *)
F64Short(user, q) ==
    q > user.QinBalance \/ (q = user.QinBalance /\ user.Ulp < 0)

(* borrower_information.earned_qin < qin_collateral (line 71) *)
F64Less(user, qin_collateral) ==
    \/ RLess(Rat(user.QinBalance, 100), qin_collateral)
    \/ /\ user.Ulp < 0
       /\ qin_collateral[1] * 100 = user.QinBalance * qin_collateral[2]

(* The response slots of processBorrowerRequest for the float64 balance *)
F64Slots(era_terms, info, user) ==
    [i \in DOMAIN era_terms |->
        IF /\ era_terms[i] # <<>>
           /\ info.no_loans >= GRACE_NUM_LOANS
           /\ F64Less(user, era_terms[i][1].qin_collateral)
        THEN <<>> ELSE era_terms[i]]

(* The transaction of LoanRequestFun (lines 752-885) for the float64       *)
(* balance                                                                 *)
F64LoanRequestTx(uid, user, records, amount, rnd, t) ==
    IF user = <<>> THEN [err |-> ErrUserNotRegistered, records |-> records]
    ELSE IF user[1].EmploymentInfo = <<>> \/ user[1].ResidenceInfo = <<>>
    THEN [err |-> ErrUserDataNotFound, records |-> records]
    ELSE
    LET d == DefaultActiveLoanIfNecessary(records, t)
        loanId == uid \o "-" \o ToString(Len(d.records))
        scan == BorrowerInfoScan(d.records, 1,
                    [earned_qin |-> user[1].QinBalance, no_loans |-> 0,
                     successful_loans |-> 0])
        income == user[1].EmploymentInfo[1].EmploymentIncome
        borrowerApp == [borrower_id |-> uid,
                        principal_amount |-> amount,
                        stated_monthly_income |-> IF income = <<>> THEN 0 ELSE income[1]]
        era_terms == F64Slots(processBorrowerRequest(eraDriver, borrowerApp, scan.info, rnd),
                              scan.info, user[1])
        loanRecord == [NewLoanRecord(amount) EXCEPT
                          !.LoanId = loanId,
                          !.State = "APPROVED",
                          !.Terms = LoanTermsOf(loanId, amount, era_terms)]
    IN  IF d.err # "nil" THEN [err |-> d.err, records |-> records]
        ELSE IF scan.err # "nil" THEN [err |-> scan.err, records |-> records]
        ELSE [err |-> "nil", records |-> Append(d.records, loanRecord)]

(* The transaction of SelectLoanOffer (lines 1000-1086) for the float64    *)
(* balance                                                                 *)
F64SelectLoanOfferTx(user, records, selectedTerm, location, t) ==
    LET tx == SelectLoanOfferTx(user, records, selectedTerm, location, t)
        a == ActiveLoanForLoanHistory(records)
        k == LoanTermsForId(selectedTerm, records[a.idx])
        fail(e) == [err |-> e, user |-> user, records |-> records]
    IN  IF tx.err # "nil" THEN tx
        ELSE IF selectedTerm # "" /\ F64Short(user[1], records[a.idx].Terms[k].QinRequired)
        THEN fail(ErrNotEnoughQin)
        ELSE IF location = "" THEN tx
        ELSE IF F64Short(user[1], tx.records[a.idx].AcceptedTerms[1].QinRequired)
        THEN fail(ErrLessQin)
        ELSE [tx EXCEPT !.user =
                 <<F64Sub(user[1], tx.records[a.idx].AcceptedTerms[1].QinRequired)>>]

F64LoanRequestFun(uid, amount, rnd) ==
    LET tx == F64LoanRequestTx(uid, users[uid], loans[uid], amount, rnd, now)
    IN  /\ tx.err = "nil" => Len(tx.records) <= MaxLoans + 2
        /\ loans' = IF tx.err = "nil" THEN [loans EXCEPT ![uid] = tx.records]
                    ELSE loans
        /\ res' = Answer("requestLoan", uid, tx.err, <<amount>>)
        /\ UNCHANGED <<users, now, ticks, procVars>>

F64SelectLoanOffer(uid, selectedTerm, location) ==
    /\ location # "" \/ selectedTerm # ""
    /\ \E tx \in {F64SelectLoanOfferTx(users[uid], loans[uid], selectedTerm, location, now)} :
          /\ (tx.err = "nil" /\ location # "") =>
                 F64SubCovered(users[uid][1],
                               users[uid][1].QinBalance - tx.user[1].QinBalance)
          /\ users' = IF tx.err = "nil" THEN [users EXCEPT ![uid] = tx.user] ELSE users
          /\ loans' = IF tx.err = "nil" THEN [loans EXCEPT ![uid] = tx.records] ELSE loans
          /\ res' = Answer("selectOffer", uid, tx.err,
                           <<selectedTerm # "", location # "">>)
    /\ UNCHANGED <<now, ticks, procVars>>

(* A borrower with a repaid and a defaulted loan behind them and a balance *)
(* of DriftBalances                                                        *)
DriftUsers ==
    {[QinBalance |-> b, Ulp |-> 0, EmploymentInfo |-> <<[EmploymentIncome |-> <<>>]>>,
      ResidenceInfo |-> <<[ResidenceStatus |-> "rent"]>>] : b \in DriftBalances}

InitDrift ==
    /\ users \in [Borrowers -> {<<p>> : p \in DriftUsers}]
    /\ loans = [u \in Borrowers |->
                   <<FinishedRecord(u, 1, "REPAID"), FinishedRecord(u, 2, "DEFAULTED")>>]
    /\ now \in StartTimes
    /\ ticks = 0
    /\ res = Answer("none", "", "nil", <<>>)
    /\ ProcInit

NextDrift ==
    \/ \E u \in Borrowers, a \in DriftAmounts, r \in DriftDraws : F64LoanRequestFun(u, a, r)
    \/ \E u \in Borrowers, l \in Locations :
          \E s \in TermChoices(u) : F64SelectLoanOffer(u, s, l)
    \/ \E d \in TickSteps : Tick(d)

SpecDrift == InitDrift /\ [][NextDrift]_vars

(* C39: the terms offered are affordable.  When a requestLoan succeeds,    *)
(* the qinRequired of every term of the created record, as rounded to the  *)
(* hundredth, is at most the balance the borrower had when applying, so    *)
(* that a selectOffer of any of these terms, made while the balance is     *)
(* what it was, is not refused for lack of collateral.                     *)
C39_F64Step ==
    \A u \in Borrowers :
        (Served("requestLoan", u) /\ res'.err = "nil") =>
            \A k \in 1..Len(Created(u).Terms) :
                /\ ~F64Short(users[u][1], Created(u).Terms[k].QinRequired)
                /\ F64SelectLoanOfferTx(users'[u], loans'[u],
                                        Created(u).Terms[k].TermId, "", now').err
                       # ErrNotEnoughQin

C39_Affordable == [][C39_F64Step]_vars

(* C39 witness: the borrower selected a term of the record their last      *)
(* request created, with the balance they applied with, and was refused    *)
(* for lack of collateral: the term requires the hundredths of the balance *)
(* and the balance is a rounding error below them                          *)
C39_Witness ==
    \E u \in Borrowers :
       /\ res.op = "selectOffer" /\ res.uid = u /\ res.err = ErrNotEnoughQin
       /\ users[u][1].Ulp < 0
       /\ LET rec == loans[u][Len(loans[u])]
          IN  /\ rec.State = "APPROVED" /\ rec.AcceptedTerms = <<>>
              /\ \E k \in 1..Len(rec.Terms) :
                    rec.Terms[k].QinRequired = users[u][1].QinBalance

============================================================================
